---------------------------- MODULE Spec2Model ----------------------------
(***************************************************************************)
(* Model of the URL shortener backend: the click-tracking redirect         *)
(* pipeline and the lookup endpoint (routes/redirect.js), the ShortLink    *)
(* routes (routes/urls.js), the click routes (routes/clicks.js), the OTP   *)
(* rate limiter (middleware/rateLimiter.js, utils/redis.js), the account   *)
(* routes (routes/auth.js) with the OTPs they keep in Redis, the order in  *)
(* which the app mounts its routers, and the two Mongoose collections the  *)
(* link routes share (models Url and Click).                               *)
(*                                                                         *)
(* Every handler is an async function on Node's single-threaded event      *)
(* loop: the code between two awaits runs to completion, and handlers of   *)
(* different requests interleave only at their awaits.  An action is one   *)
(* awaited operation taking effect together with the synchronous code      *)
(* that consumes its result, up to the next await.  The code before a      *)
(* handler's first await only reads the request, so the arrival of a       *)
(* request is part of the action of its first awaited operation.           *)
(*                                                                         *)
(* A rejected store operation is modelled where a handler's answer depends *)
(* on it: Url.findOne of the redirect handler, Click.create, the queries   *)
(* of the read routes, the ownership query of the delete, and the awaits   *)
(* of the account routes.  The auth middleware (req.user is the            *)
(* authenticated user) and the QR image calls of routes/urls.js touch      *)
(* neither collection and are left out; a ClickEvent carries its link, IP  *)
(* and geolocation triple.                                                 *)
(*                                                                         *)
(* The specifications share the variables: Spec (and FairSpec) for the     *)
(* redirect pipeline with the link routes, ReadSpec for the read routes,   *)
(* RouteSpec for the dispatch of GET requests, LimiterSpec for the rate    *)
(* limiter, AuthSpec for the account routes, GateSpec for the routes       *)
(* behind the rate-limit middleware, and PureSpec, which applies the       *)
(* helpers of routes/redirect.js to one input each.                        *)
(***************************************************************************)
EXTENDS Naturals, FiniteSets, Sequences, TLC

\* ------------------------------------------------------------------ bounds
\* Number of HTTP requests, of all routes together, a behaviour receives.
MaxRequests == 3

\* A well-formed ObjectId that no ShortLink has.
NoSuchId == 0

\* ------------------------------------------------------------------ inputs
\* Path segments, generated short codes and custom aliases are strings.
\* "abc123" and "mysite" are both possible values of
\* Math.random().toString(36).substr(2, 6); "api" is the reserved segment.
Null == "<null>"
Segments == {"abc123", "mysite", "api"}
GeneratedCodes == {"abc123", "mysite"}
Aliases == {"mysite", "api"}
Users == {"u1", "u2"}
\* The longUrl of the c-th create request: the two destinations alternate.
LongUrlOf(c) == IF c % 2 = 1 THEN "https://a.example" ELSE "https://b.example"
IPs == {"127.0.0.1", "8.8.8.8"}
\* What the geolocation provider can do with one call.
ProviderOutcomes == {"success", "successNoCity", "fail", "malformed", "networkError"}
\* The provider outcomes getGeolocation does not report as a success.
FailedOutcomes == {"fail", "malformed", "networkError"}

VARIABLES
  urls,      \* the Url collection: a set of ShortLink documents
  clicks,    \* the Click collection: a set of ClickEvent documents
  inserted,  \* history: every ClickEvent document ever inserted
  rd,        \* the GET /:shortCode requests, in order of arrival
  cr,        \* the POST /api/urls requests, in order of arrival
  dl,        \* the DELETE /api/urls/:id requests, in order of arrival
  posts,     \* the number of POST /api/clicks requests served
  reads,     \* the requests of the read routes, in order of arrival
  otp,       \* the OTP rate limiter's counters of the current window
  au,        \* the accounts, the stored OTPs, the mails sent, the auth requests
  call       \* one application of a pure helper: its input and its result

vars == <<urls, clicks, inserted, rd, cr, dl, posts, reads, otp, au, call>>

\* ------------------------------------------------------- pure helpers
\* The characters of the strings of the model: IPs, the words a user-agent
\* is made of, and the literals the classifiers search for.
Chars(s) ==
  CASE s = "127.0.0.1" -> <<"1", "2", "7", ".", "0", ".", "0", ".", "1">>
    [] s = "8.8.8.8" -> <<"8", ".", "8", ".", "8", ".", "8">>
    [] s = "10.0.0.5" -> <<"1", "0", ".", "0", ".", "0", ".", "5">>
    [] s = "100.0.0.5" -> <<"1", "0", "0", ".", "0", ".", "0", ".", "5">>
    [] s = "192.168.1.7" -> <<"1", "9", "2", ".", "1", "6", "8", ".", "1", ".", "7">>
    [] s = "172.16.0.9" -> <<"1", "7", "2", ".", "1", "6", ".", "0", ".", "9">>
    [] s = "::1" -> <<":", ":", "1">>
    [] s = "::ffff:127.0.0.1" -> <<":", ":", "f", "f", "f", "f", ":", "1", "2", "7", ".", "0", ".", "0", ".", "1">>
    [] s = "localhost" -> <<"l", "o", "c", "a", "l", "h", "o", "s", "t">>
    [] s = "Unknown" -> <<"U", "n", "k", "n", "o", "w", "n">>
    [] s = "192.168." -> <<"1", "9", "2", ".", "1", "6", "8", ".">>
    [] s = "10." -> <<"1", "0", ".">>
    [] s = "Mozilla/5.0" -> <<"M", "o", "z", "i", "l", "l", "a", "/", "5", ".", "0">>
    [] s = "Windows NT 10.0" -> <<"W", "i", "n", "d", "o", "w", "s", " ", "N", "T", " ", "1", "0", ".", "0">>
    [] s = "Windows NT 6.3" -> <<"W", "i", "n", "d", "o", "w", "s", " ", "N", "T", " ", "6", ".", "3">>
    [] s = "Windows NT 6.2" -> <<"W", "i", "n", "d", "o", "w", "s", " ", "N", "T", " ", "6", ".", "2">>
    [] s = "Windows NT 6.1" -> <<"W", "i", "n", "d", "o", "w", "s", " ", "N", "T", " ", "6", ".", "1">>
    [] s = "Windows Phone" -> <<"W", "i", "n", "d", "o", "w", "s", " ", "P", "h", "o", "n", "e">>
    [] s = "Mac OS X" -> <<"M", "a", "c", " ", "O", "S", " ", "X">>
    [] s = "Android" -> <<"A", "n", "d", "r", "o", "i", "d">>
    [] s = "ANDROID" -> <<"A", "N", "D", "R", "O", "I", "D">>
    [] s = "iPhone" -> <<"i", "P", "h", "o", "n", "e">>
    [] s = "iPad" -> <<"i", "P", "a", "d">>
    [] s = "iPod" -> <<"i", "P", "o", "d">>
    [] s = "Linux" -> <<"L", "i", "n", "u", "x">>
    [] s = "Mobile" -> <<"M", "o", "b", "i", "l", "e">>
    [] s = "Tablet" -> <<"T", "a", "b", "l", "e", "t">>
    [] s = "TABLET" -> <<"T", "A", "B", "L", "E", "T">>
    [] s = "BlackBerry" -> <<"B", "l", "a", "c", "k", "B", "e", "r", "r", "y">>
    [] s = "IEMobile" -> <<"I", "E", "M", "o", "b", "i", "l", "e">>
    [] s = "Opera Mini" -> <<"O", "p", "e", "r", "a", " ", "M", "i", "n", "i">>
    [] s = "mobile" -> <<"m", "o", "b", "i", "l", "e">>
    [] s = "android" -> <<"a", "n", "d", "r", "o", "i", "d">>
    [] s = "iphone" -> <<"i", "p", "h", "o", "n", "e">>
    [] s = "ipad" -> <<"i", "p", "a", "d">>
    [] s = "ipod" -> <<"i", "p", "o", "d">>
    [] s = "blackberry" -> <<"b", "l", "a", "c", "k", "b", "e", "r", "r", "y">>
    [] s = "iemobile" -> <<"i", "e", "m", "o", "b", "i", "l", "e">>
    [] s = "opera mini" -> <<"o", "p", "e", "r", "a", " ", "m", "i", "n", "i">>
    [] s = "tablet" -> <<"t", "a", "b", "l", "e", "t">>
    [] s = "Windows NT 10" -> <<"W", "i", "n", "d", "o", "w", "s", " ", "N", "T", " ", "1", "0">>
    [] s = "Windows" -> <<"W", "i", "n", "d", "o", "w", "s">>
    [] s = "Firefox" -> <<"F", "i", "r", "e", "f", "o", "x">>
    [] s = "Edg" -> <<"E", "d", "g">>
    [] s = "Edge" -> <<"E", "d", "g", "e">>
    [] s = "Chrome" -> <<"C", "h", "r", "o", "m", "e">>
    [] s = "Safari" -> <<"S", "a", "f", "a", "r", "i">>
    [] s = "Opera" -> <<"O", "p", "e", "r", "a">>
    [] s = "OPR" -> <<"O", "P", "R">>
    [] s = "MSIE" -> <<"M", "S", "I", "E">>
    [] s = "Trident" -> <<"T", "r", "i", "d", "e", "n", "t">>
    [] s = "firefox" -> <<"f", "i", "r", "e", "f", "o", "x">>
    [] s = "CHROME" -> <<"C", "H", "R", "O", "M", "E">>
    [] s = "CriOS" -> <<"C", "r", "i", "O", "S">>
    [] s = "Chromium" -> <<"C", "h", "r", "o", "m", "i", "u", "m">>
    [] s = "1.2.3.4" -> <<"1", ".", "2", ".", "3", ".", "4">>
    [] s = "1.2.3.4, 5.6.7.8" -> <<"1", ".", "2", ".", "3", ".", "4", ",", " ", "5", ".", "6", ".", "7", ".", "8">>
    [] s = "1.2.3.4 ,5.6.7.8" -> <<"1", ".", "2", ".", "3", ".", "4", " ", ",", "5", ".", "6", ".", "7", ".", "8">>
    [] s = ", 5.6.7.8" -> <<",", " ", "5", ".", "6", ".", "7", ".", "8">>
    [] s = "," -> <<",">>
    [] s = "198.51.100.7" -> <<"1", "9", "8", ".", "5", "1", ".", "1", "0", "0", ".", "7">>
    [] s = "203.0.113.9" -> <<"2", "0", "3", ".", "0", ".", "1", "1", "3", ".", "9">>
    [] s = "" -> <<>>

\* String.prototype.startsWith.
StartsWith(chars, prefix) ==
  Len(prefix) <= Len(chars) /\ SubSeq(chars, 1, Len(prefix)) = prefix

\* Fault: the local test without the IPv6 loopback.
IsLocalIP_NoV6(ip) ==
  \/ ip = "127.0.0.1"
  \/ ip = "localhost"
  \/ StartsWith(Chars(ip), Chars("192.168."))
  \/ StartsWith(Chars(ip), Chars("10."))

\* getGeolocation's local test: loopback, "localhost" and the private prefixes.
IsLocalIP(ip) ==
  \/ ip = "127.0.0.1"
  \/ ip = "::1"
  \/ ip = "localhost"
  \/ StartsWith(Chars(ip), Chars("192.168."))
  \/ StartsWith(Chars(ip), Chars("10."))

\* Whether getGeolocation reaches its fetch: the local test returns before it.
CallsProvider(ip) == ~IsLocalIP(ip)

Unknown3 == [city |-> "Unknown", country |-> "Unknown", region |-> "Unknown"]
Local3 == [city |-> "Local", country |-> "Local", region |-> "Local"]

\* The provider's JSON body for an outcome (a missing field is Null).
ProviderBody(outcome) ==
  CASE outcome = "success" ->
         [status |-> "success", city |-> "Paris", country |-> "France", regionName |-> "IDF"]
    [] outcome = "successNoCity" ->
         [status |-> "success", city |-> Null, country |-> "France", regionName |-> Null]
    [] outcome = "successNoCountry" ->
         [status |-> "success", city |-> "Paris", country |-> Null, regionName |-> "IDF"]
    [] outcome = "successNoRegion" ->
         [status |-> "success", city |-> "Paris", country |-> "France", regionName |-> Null]
    [] outcome = "successEmptyCity" ->
         [status |-> "success", city |-> "", country |-> "France", regionName |-> "IDF"]
    [] outcome = "successBare" ->
         [status |-> "success", city |-> Null, country |-> Null, regionName |-> Null]
    [] OTHER ->
         [status |-> "fail", city |-> Null, country |-> Null, regionName |-> Null]

\* v || 'Unknown': an absent and an empty field are both falsy.
OrUnknown(v) == IF v \in {Null, ""} THEN "Unknown" ELSE v

\* Fault: getGeolocation without its status test, defaults and catch.
getGeolocation_NoDefault(ip, outcome) ==
  IF IsLocalIP(ip) THEN Local3
  ELSE LET data == ProviderBody(outcome)
       IN [city |-> data.city, country |-> data.country, region |-> data.regionName]

\* Fault: getGeolocation without its try/catch, so a body that does not
\* parse and a network error reject its promise and no triple comes back.
getGeolocation_NoCatch(ip, outcome) ==
  IF IsLocalIP(ip) THEN Local3
  ELSE IF outcome \in {"malformed", "networkError"}
       THEN [city |-> Null, country |-> Null, region |-> Null]
  ELSE LET data == ProviderBody(outcome)
       IN IF data.status = "success"
          THEN [city |-> OrUnknown(data.city),
                country |-> OrUnknown(data.country),
                region |-> OrUnknown(data.regionName)]
          ELSE Unknown3

\* getGeolocation: the triple it resolves to for an IP and a provider outcome.
\* A body that does not parse and a network error land in the catch block.
getGeolocation(ip, outcome) ==
  IF IsLocalIP(ip) THEN Local3
  ELSE IF outcome \in {"malformed", "networkError"} THEN Unknown3
  ELSE LET data == ProviderBody(outcome)
       IN IF data.status = "success"
          THEN [city |-> OrUnknown(data.city),
                country |-> OrUnknown(data.country),
                region |-> OrUnknown(data.regionName)]
          ELSE Unknown3

\* Url.findOne({ $or: [{ shortUrl: s }, { customUrl: s }] }): the documents
\* the filter matches; findOne returns one of them, or null when there is none.
FindByCode(s) == {u \in urls : u.shortUrl = s \/ u.customUrl = s}

\* Fault: the ownership filter without its userId condition.
FindOwned_AnyUser(id, user) == {u \in urls : u._id = id}

\* Url.findOne({ _id: id, userId: user }).
FindOwned(id, user) == {u \in urls : u._id = id /\ u.userId = user}


\* ------------------------------------------------- user-agent classifiers
\* A User-Agent header is absent or a text; a text is a list of words joined
\* by single spaces.
Words ==
  {"Mozilla/5.0", "Windows NT 10.0", "Windows NT 6.3", "Windows NT 6.2",
   "Windows NT 6.1", "Windows Phone", "Mac OS X", "Android", "ANDROID", "iPhone",
   "iPad", "iPod", "Linux", "Mobile", "Tablet", "TABLET", "BlackBerry",
   "IEMobile", "Opera Mini"}

\* The number of words of the longest user-agent text.
MaxWords == 2

UserAgents ==
  {[given |-> FALSE, words |-> <<>>]} \cup
  {[given |-> TRUE, words |-> w] : w \in UNION {[1..n -> Words] : n \in 0..MaxWords}}

RECURSIVE Join(_)
Join(words) ==
  IF words = <<>> THEN <<>>
  ELSE IF Len(words) = 1 THEN Chars(words[1])
  ELSE Chars(words[1]) \o <<" ">> \o Join(Tail(words))

\* The text of a header that is present.
Text(ua) == Join(ua.words)

\* !userAgent: undefined and the empty string are falsy.
Falsy(ua) == ~ua.given \/ Text(ua) = <<>>

\* String.prototype.includes.
Includes(text, pat) ==
  \E i \in 1..Len(text) :
     i + Len(pat) <= Len(text) + 1 /\ SubSeq(text, i, i + Len(pat) - 1) = pat

LowerOf ==
  "A" :> "a" @@ "B" :> "b" @@ "C" :> "c" @@ "D" :> "d" @@ "E" :> "e" @@
  "F" :> "f" @@ "G" :> "g" @@ "H" :> "h" @@ "I" :> "i" @@ "J" :> "j" @@
  "K" :> "k" @@ "L" :> "l" @@ "M" :> "m" @@ "N" :> "n" @@ "O" :> "o" @@
  "P" :> "p" @@ "Q" :> "q" @@ "R" :> "r" @@ "S" :> "s" @@ "T" :> "t" @@
  "U" :> "u" @@ "V" :> "v" @@ "W" :> "w" @@ "X" :> "x" @@ "Y" :> "y" @@
  "Z" :> "z"

\* Fault: toLowerCase that leaves the text as it is.
toLowerCase_Off(text) == text

\* String.prototype.toLowerCase.
toLowerCase(text) ==
  [i \in DOMAIN text |-> IF text[i] \in DOMAIN LowerOf THEN LowerOf[text[i]] ELSE text[i]]

\* /a|b|c/i.test(text): some alternative occurs in the text, letter case apart.
RegexTestI(alternatives, text) ==
  \E a \in alternatives : Includes(toLowerCase(text), toLowerCase(Chars(a)))

\* Fault: the first pattern of getDeviceType with "tablet" among its tokens.
MobilePattern_WithTablet ==
  {"mobile", "android", "iphone", "ipad", "ipod", "blackberry", "iemobile",
   "opera mini", "tablet"}

\* The alternatives of the two patterns of getDeviceType.
MobilePattern ==
  {"mobile", "android", "iphone", "ipad", "ipod", "blackberry", "iemobile",
   "opera mini"}
TabletPattern == {"tablet", "ipad"}

getDeviceType(ua) ==
  IF Falsy(ua) THEN "desktop"
  ELSE LET userAgent == toLowerCase(Text(ua))
       IN IF RegexTestI(MobilePattern, userAgent) THEN "mobile"
          ELSE IF RegexTestI(TabletPattern, userAgent) THEN "tablet"
          ELSE "desktop"

getOS(ua) ==
  IF Falsy(ua) THEN "Unknown"
  ELSE LET has(lit) == Includes(Text(ua), Chars(lit))
       IN IF has("Windows NT 10") THEN "Windows 10"
          ELSE IF has("Windows NT 6.3") THEN "Windows 8.1"
          ELSE IF has("Windows NT 6.2") THEN "Windows 8"
          ELSE IF has("Windows NT 6.1") THEN "Windows 7"
          ELSE IF has("Windows") THEN "Windows"
          ELSE IF has("Mac OS X") THEN "macOS"
          ELSE IF has("Android") THEN "Android"
          ELSE IF has("iPhone") \/ has("iPad") THEN "iOS"
          ELSE IF has("Linux") THEN "Linux"
          ELSE "Other"


\* The words of the texts getBrowser is applied to: the tokens it searches
\* for, words that contain one ("Edge", "Opera Mini"), and words that
\* differ from one in letter case or spelling.
BrowserWords ==
  {"Mozilla/5.0", "Firefox", "Edg", "Edge", "Chrome", "Safari", "Opera",
   "Opera Mini", "OPR", "MSIE", "Trident", "firefox", "CHROME", "CriOS",
   "Chromium"}

BrowserAgents ==
  {[given |-> FALSE, words |-> <<>>]} \cup
  {[given |-> TRUE, words |-> w] :
     w \in UNION {[1..n -> BrowserWords] : n \in 0..MaxWords}}

\* Fault: getBrowser that tests "Safari" before "Chrome".
getBrowser_SafariFirst(ua) ==
  IF Falsy(ua) THEN "Unknown"
  ELSE LET has(lit) == Includes(Text(ua), Chars(lit))
       IN IF has("Firefox") THEN "Firefox"
          ELSE IF has("Edg") THEN "Edge"
          ELSE IF has("Safari") THEN "Safari"
          ELSE IF has("Chrome") THEN "Chrome"
          ELSE IF has("Opera") \/ has("OPR") THEN "Opera"
          ELSE IF has("MSIE") \/ has("Trident") THEN "Internet Explorer"
          ELSE "Other"

getBrowser(ua) ==
  IF Falsy(ua) THEN "Unknown"
  ELSE LET has(lit) == Includes(Text(ua), Chars(lit))
       IN IF has("Firefox") THEN "Firefox"
          ELSE IF has("Edg") THEN "Edge"
          ELSE IF has("Chrome") THEN "Chrome"
          ELSE IF has("Safari") THEN "Safari"
          ELSE IF has("Opera") \/ has("OPR") THEN "Opera"
          ELSE IF has("MSIE") \/ has("Trident") THEN "Internet Explorer"
          ELSE "Other"

\* ------------------------------------------------- getClientIP
\* The values of the x-forwarded-for header (Null when the request has
\* none; Node hands a header without a value over as the empty string, and
\* any value without the blanks around it) and of the three connection-level
\* sources (Null when undefined).
ForwardedHeaders ==
  {Null, "", "1.2.3.4", "1.2.3.4, 5.6.7.8", "1.2.3.4 ,5.6.7.8", ", 5.6.7.8", ","}
ConnectionAddrs == {Null, "198.51.100.7"}
SocketAddrs == {Null, "", "203.0.113.9"}
ReqIps == {Null, "8.8.8.8"}

\* forwarded.split(',')[0]: the text before the first comma, the whole text
\* when it has none.
FirstEntry(text) ==
  LET commas == {i \in 1..Len(text) : text[i] = ","}
  IN IF commas = {} THEN text
     ELSE SubSeq(text, 1, (CHOOSE i \in commas : \A j \in commas : i <= j) - 1)

\* String.prototype.trim.
RECURSIVE Trim(_)
Trim(text) ==
  IF text = <<>> THEN text
  ELSE IF Head(text) = " " THEN Trim(Tail(text))
  ELSE IF text[Len(text)] = " " THEN Trim(SubSeq(text, 1, Len(text) - 1))
  ELSE text

\* a || b: the first operand unless it is falsy (undefined or '').
Or(a, b) == IF a \in {Null, ""} THEN b ELSE a

\* The resolved address, as its characters.
getClientIP(forwarded, connection, socket, ip) ==
  IF forwarded \notin {Null, ""}
  THEN Trim(FirstEntry(Chars(forwarded)))
  ELSE Chars(Or(connection, Or(socket, Or(ip, "Unknown"))))

\* ------------------------------------------------- the OTP rate limiter
\* Ratelimit.slidingWindow(5, '1 m'): requests allowed per identifier.
Limit == 5

\* The number of requests to the rate-limited routes in a behaviour; all of
\* them fall in one one-minute window.
MaxOtpRequests == 6

\* Client addresses (req.ip) and the email field of a request body; Null is
\* a body without one, as a multipart signup is before multer has parsed it.
OtpIPs == {"198.51.100.7", "203.0.113.9"}
Emails == {"a@example.com", "b@example.com"}

\* req.body.email || req.ip
Identifier(email, ip) == IF email \in {Null, ""} THEN ip ELSE email

\* Nothing counted yet: the requests seen, the limiter's count per
\* identifier, and per client address the requests the limiter allowed, those
\* that reached their handler and those answered 429.
NoOtp ==
  [n |-> 0,
   hits |-> [id \in Emails \cup OtpIPs |-> 0],
   granted |-> [ip \in OtpIPs |-> 0],
   through |-> [ip \in OtpIPs |-> 0],
   blocked |-> [ip \in OtpIPs |-> 0]]

\* ------------------------------------------------- accounts and OTPs
\* Number of requests to the routes of routes/auth.js in a behaviour.
MaxAuthRequests == 3

\* The values generateOtp draws and a client supplies, and the passwords.
OtpValues == {"111111", "222222"}
Passwords == {"pw1", "pw2"}

\* No account, no OTP in Redis, no mail sent, no request received.  An
\* account is its email (the key of the User collection), its isVerified
\* flag and its password hash; issue counts, per email, the OTPs stored so
\* far, so that the OTP a request read can be told from a later one of the
\* same value.
NoAnswer ==
  [route |-> "none", email |-> Null, otp |-> Null, lim |-> "none", runs |-> 0,
   existed |-> "?", status |-> 0, token |-> FALSE, reused |-> FALSE]

NoAuth ==
  [exists |-> {},
   verified |-> {},
   password |-> [e \in Emails |-> Null],
   stored |-> [e \in Emails |-> Null],
   purpose |-> [e \in Emails |-> Null],
   issue |-> [e \in Emails |-> 0],
   sent |-> {},
   n |-> 0,
   rq |-> <<>>,
   last |-> NoAnswer,
   consumed |-> {},
   forgot |-> {}]

\* ------------------------------------------------------------------ Init
\* No pure helper is being applied.
NoCall ==
  [fn |-> "none", ip |-> Null, outcome |-> Null, ua |-> [given |-> FALSE, words |-> <<>>],
   forwarded |-> Null, connection |-> Null, socket |-> Null,
   done |-> FALSE, fetched |-> FALSE, out |-> Null]

Init ==
  /\ urls = {}
  /\ clicks = {}
  /\ inserted = {}
  /\ rd = <<>>
  /\ cr = <<>>
  /\ dl = <<>>
  /\ posts = 0
  /\ reads = <<>>
  /\ otp = NoOtp
  /\ au = NoAuth
  /\ call = NoCall

\* The requests received so far; one more can arrive while under the bound.
Received == Len(rd) + Len(cr) + Len(dl) + posts + Len(reads)
Arrives == Received < MaxRequests

\* ------------------------------------------------- GET /:shortCode
\* The handler's locals and what it has answered.  The locals (ip, geo) are
\* dead once the handler and its background task have ended and are reset.
NewRedirect(seg, ip) ==
  [pc |-> "findOne", shortCode |-> seg, ip |-> ip, urlId |-> NoSuchId, status |-> 0,
   location |-> Null, provider |-> Null, geo |-> Unknown3, click |-> "none",
   lookedUp |-> FALSE]

\* Url.findOne is invoked for the request.
LooksUp(req) == [req EXCEPT !.lookedUp = TRUE]

\* Fault: no segment is reserved.
OnReserved_Off(shortCode) == FALSE

\* The reserved-segment test that precedes the lookup.
OnReserved(shortCode) == shortCode = "api"

\* Fault: the handler awaits the background task instead of answering.
OnHit_AwaitGeo(req, url) ==
  [req EXCEPT !.pc = IF IsLocalIP(req.ip) THEN "create" ELSE "fetch",
              !.urlId = url._id,
              !.geo = IF IsLocalIP(req.ip) THEN Local3 ELSE Unknown3]

\* Lookup hit: getGeolocation(ip) is called and its .then callback registered
\* (a local IP resolves at once, so Click.create is the next thing to run;
\* any other IP leaves a fetch in flight), then res.redirect(302, originalUrl)
\* runs in the same synchronous segment.
OnHit(req, url) ==
  [req EXCEPT !.pc = IF IsLocalIP(req.ip) THEN "create" ELSE "fetch",
              !.urlId = url._id,
              !.geo = IF IsLocalIP(req.ip) THEN Local3 ELSE Unknown3,
              !.status = 302,
              !.location = url.originalUrl]

\* Fault: the click is tracked before the lookup result is tested.
OnMiss_Track(req) == [req EXCEPT !.pc = "create", !.status = 404]

\* Lookup miss, or the reserved segment: a 404, and the handler returns.
OnMiss(req) == [req EXCEPT !.pc = "done", !.ip = Null, !.status = 404]

\* Fault: the background task is started before the lookup is awaited.
OnThrow_AfterSpawn(req) == [req EXCEPT !.pc = "create", !.status = 500]

\* Url.findOne rejects: the catch block answers the generic 500.
OnThrow(req) == [req EXCEPT !.pc = "done", !.ip = Null, !.status = 500]

\* A request arrives and its handler runs until the request is answered:
\* the reserved test, then Url.findOne, which rejects, misses or hits.
RedirectLookup(seg, ip) ==
  /\ Arrives
  /\ LET req == NewRedirect(seg, ip)
     IN IF OnReserved(seg)
        THEN rd' = Append(rd, OnMiss(req))
        ELSE \/ rd' = Append(rd, OnThrow(LooksUp(req)))
             \/ /\ FindByCode(seg) = {}
                /\ rd' = Append(rd, OnMiss(LooksUp(req)))
             \/ \E url \in FindByCode(seg) : rd' = Append(rd, OnHit(LooksUp(req), url))
  /\ UNCHANGED <<urls, clicks, inserted, cr, dl, posts, reads, otp, au, call>>

\* The provider call of getGeolocation settles; the .then callback starts
\* and issues Click.create with the triple getGeolocation resolved to.
GeoReturn(r, outcome) ==
  /\ r \in DOMAIN rd
  /\ rd[r].pc = "fetch"
  /\ rd' = [rd EXCEPT ![r] =
              [rd[r] EXCEPT !.pc = "create",
                            !.provider = IF outcome \in FailedOutcomes
                                         THEN "failed" ELSE "success",
                            !.geo = getGeolocation(rd[r].ip, outcome)]]
  /\ UNCHANGED <<urls, clicks, inserted, cr, dl, posts, reads, otp, au, call>>

\* A fresh ClickEvent _id: who inserts it (the redirect request, 0 for
\* POST /api/clicks) and how many documents that origin inserted before.
FreshId(via) == <<via, Cardinality({c \in inserted : c.via = via})>>

\* The ClickEvent document the redirect handler passes to Click.create.
ClickDoc(req, via) ==
  [_id |-> FreshId(via), urlId |-> req.urlId, ip |-> req.ip, city |-> req.geo.city,
   country |-> req.geo.country, region |-> req.geo.region, via |-> via]

\* Fault: one ClickEvent per ShortLink, later ones dropped.
Click_create_Dedup(coll, doc) ==
  IF \E c \in coll : c.urlId = doc.urlId THEN coll ELSE coll \cup {doc}

\* Click.create(doc) when the store accepts it: one more document.
Click_create(coll, doc) == coll \cup {doc}

\* Fault: the .then callback without its try/catch, so a rejected insert is
\* an unhandled rejection.
OnInsertSettled_NoCatch(ok) == IF ok THEN "saved" ELSE "unhandled"

\* How the .then callback ends: Click.create fulfilled, or it rejected and
\* the callback's catch block logged the error.
OnInsertSettled(ok) == IF ok THEN "saved" ELSE "failed"

\* Click.create settles: the document is inserted, or the insert rejects and
\* the inner catch logs it.  Either way the background task ends.
ClickCreate(r, ok) ==
  /\ r \in DOMAIN rd
  /\ rd[r].pc = "create"
  /\ IF ok
     THEN /\ clicks' = Click_create(clicks, ClickDoc(rd[r], r))
          /\ inserted' = inserted \cup (clicks' \ clicks)
     ELSE UNCHANGED <<clicks, inserted>>
  /\ rd' = [rd EXCEPT ![r] =
              [rd[r] EXCEPT !.pc = "done", !.ip = Null, !.provider = Null,
                            !.geo = Unknown3,
                            !.click = OnInsertSettled(ok)]]
  /\ UNCHANGED <<urls, cr, dl, posts, reads, otp, au, call>>

\* ------------------------------------------------- POST /api/urls
\* Url.findOne({ $or: [{ customUrl }, { shortUrl: customUrl }] }) of the
\* taken-check: the documents it matches.
FindTaken(customUrl) ==
  {u \in urls : u.customUrl = customUrl \/ u.shortUrl = customUrl}

\* A handler that has answered: only the status is left of it.
Answered(status) ==
  [pc |-> "done", user |-> Null, longUrl |-> Null, customUrl |-> Null,
   shortUrl |-> Null, status |-> status]

\* A request with a customUrl arrives: the short code is drawn at random and
\* the taken-check settles, with 400 when a document matched; otherwise
\* Url.create is issued.
CreateCheck(user, customUrl, shortUrl) ==
  /\ Arrives
  /\ customUrl # Null
  /\ cr' = Append(cr,
              IF FindTaken(customUrl) # {}
              THEN Answered(400)
              ELSE [pc |-> "create", user |-> user, longUrl |-> LongUrlOf(Len(cr) + 1),
                    customUrl |-> customUrl, shortUrl |-> shortUrl, status |-> 0])
  /\ UNCHANGED <<urls, clicks, inserted, rd, dl, posts, reads, otp, au, call>>

\* The indexes of urlSchema: shortUrl is declared unique; customUrl is
\* declared sparse and indexed, neither of which makes it unique.  The
\* insert of doc is rejected exactly when it would break a unique index.
UniqueIndexAccepts(doc) == \A u \in urls : u.shortUrl # doc.shortUrl

\* The ShortLink document POST /api/urls passes to Url.create
\* (customUrl || null); its _id is the arrival number of the request.
UrlDoc(id, req) ==
  [_id |-> id, userId |-> req.user, originalUrl |-> req.longUrl,
   shortUrl |-> req.shortUrl, customUrl |-> req.customUrl]

\* Url.create settles: 201 with the new document, or 500 when the unique
\* index rejects it.
UrlCreate(doc) ==
  IF UniqueIndexAccepts(doc)
  THEN [status |-> 201, coll |-> urls \cup {doc}]
  ELSE [status |-> 500, coll |-> urls]

\* The Url.create of a request that passed the taken-check.
CreateInsert(c) ==
  /\ c \in DOMAIN cr
  /\ cr[c].pc = "create"
  /\ LET res == UrlCreate(UrlDoc(c, cr[c]))
     IN /\ urls' = res.coll
        /\ cr' = [cr EXCEPT ![c] = Answered(res.status)]
  /\ UNCHANGED <<clicks, inserted, rd, dl, posts, reads, otp, au, call>>

\* A request without customUrl arrives: no taken-check, Url.create is its
\* first awaited operation.
CreatePlain(user, shortUrl) ==
  /\ Arrives
  /\ LET c == Len(cr) + 1
         res == UrlCreate(UrlDoc(c, [user |-> user, longUrl |-> LongUrlOf(c),
                                     customUrl |-> Null, shortUrl |-> shortUrl]))
     IN /\ urls' = res.coll
        /\ cr' = Append(cr, Answered(res.status))
  /\ UNCHANGED <<clicks, inserted, rd, dl, posts, reads, otp, au, call>>

\* ------------------------------------------------- DELETE /api/urls/:id
\* A request arrives and the owner-scoped findOne settles: 500 from the
\* catch block when it rejects (the store fails, or the id is not an
\* ObjectId), 404 when the user owns no such link, otherwise
\* Click.deleteMany is issued.
DeleteFind(user, id, ok) ==
  /\ Arrives
  /\ dl' = Append(dl,
              IF ~ok
              THEN [pc |-> "done", id |-> id, status |-> 500]
              ELSE IF FindOwned(id, user) = {}
              THEN [pc |-> "done", id |-> id, status |-> 404]
              ELSE [pc |-> "deleteMany", id |-> id, status |-> 0])
  /\ UNCHANGED <<urls, clicks, inserted, rd, cr, posts, reads, otp, au, call>>

\* Click.deleteMany({ urlId }) settles; url.deleteOne() is issued.
DeleteClicks(d) ==
  /\ d \in DOMAIN dl
  /\ dl[d].pc = "deleteMany"
  /\ clicks' = {c \in clicks : c.urlId # dl[d].id}
  /\ dl' = [dl EXCEPT ![d] = [@ EXCEPT !.pc = "deleteOne"]]
  /\ UNCHANGED <<urls, inserted, rd, cr, posts, reads, otp, au, call>>

\* url.deleteOne() settles and the success response is sent.
DeleteUrl(d) ==
  /\ d \in DOMAIN dl
  /\ dl[d].pc = "deleteOne"
  /\ urls' = {u \in urls : u._id # dl[d].id}
  /\ dl' = [dl EXCEPT ![d] = [@ EXCEPT !.pc = "done", !.status = 200]]
  /\ UNCHANGED <<clicks, inserted, rd, cr, posts, reads, otp, au, call>>

\* ------------------------------------------------- POST /api/clicks
\* The public insert: Click.create with the urlId of the body (any
\* well-formed id, of a stored link or not), absent fields defaulted.
PostClick(urlId, ip, ok) ==
  /\ Arrives
  /\ posts' = posts + 1
  /\ IF ok
     THEN /\ clicks' = Click_create(clicks,
                 [_id |-> FreshId(0), urlId |-> urlId, ip |-> ip, city |-> "Unknown",
                  country |-> "Unknown", region |-> "Unknown", via |-> 0])
          /\ inserted' = inserted \cup (clicks' \ clicks)
     ELSE UNCHANGED <<clicks, inserted>>
  /\ UNCHANGED <<urls, rd, cr, dl, reads, otp, au, call>>

\* ------------------------------------------------------------------ Next
\* The ids a request can name: those of the create requests received so
\* far, and one that no link has.
KnownIds == DOMAIN cr \cup {NoSuchId}

\* The users who send delete requests.  Users are symmetric and links are
\* created by either, so one user deleting, his own links and the other's,
\* stands for both.
Deleters == {"u1"}

Next ==
  \/ \E seg \in Segments, ip \in IPs : RedirectLookup(seg, ip)
  \/ \E r \in DOMAIN rd, outcome \in ProviderOutcomes : GeoReturn(r, outcome)
  \/ \E r \in DOMAIN rd, ok \in BOOLEAN : ClickCreate(r, ok)
  \/ \E user \in Users, customUrl \in Aliases, shortUrl \in GeneratedCodes :
        CreateCheck(user, customUrl, shortUrl)
  \/ \E c \in DOMAIN cr : CreateInsert(c)
  \/ \E user \in Users, shortUrl \in GeneratedCodes : CreatePlain(user, shortUrl)
  \/ \E user \in Deleters, id \in KnownIds, ok \in BOOLEAN : DeleteFind(user, id, ok)
  \/ \E d \in DOMAIN dl : DeleteClicks(d)
  \/ \E d \in DOMAIN dl : DeleteUrl(d)
  \/ \E urlId \in KnownIds, ok \in BOOLEAN : PostClick(urlId, "8.8.8.8", ok)

Spec == Init /\ [][Next]_vars

\* The background steps are promise callbacks on the event loop: once the
\* provider call or the insert has settled, its continuation runs.
Background(r) ==
  \/ \E outcome \in ProviderOutcomes : GeoReturn(r, outcome)
  \/ \E ok \in BOOLEAN : ClickCreate(r, ok)

FairSpec == Spec /\ \A r \in 1..MaxRequests : WF_vars(Background(r))

\* ------------------------------------------------- the read routes
\* GET /api/lookup/:shortCode, GET /api/urls, GET /api/urls/:id,
\* GET /api/clicks/:urlId and POST /api/clicks/multiple.  A read request is
\* its route, the authenticated user (req.user, none for the public lookup),
\* its argument, the ids its ownership query let through, and the response:
\* status, the ShortLinks and ClickEvents of the body, and the list's total.
NewRead(kind, user, arg) ==
  [kind |-> kind, pc |-> "start", user |-> user, arg |-> arg, valid |-> {},
   status |-> 0, links |-> {}, events |-> {}, total |-> 0]

\* res.status(status).json(...) with the given documents; the handler returns.
Respond(req, status, links, events) ==
  [req EXCEPT !.pc = "done", !.valid = {}, !.status = status, !.links = links,
              !.events = events]

\* A store query rejects: the handler's catch block answers 500.
ReadFailed(req) == Respond(req, 500, {}, {})

\* Fault: the lookup matches the generated short code only.
LookupMatches_ShortOnly(shortCode) == {u \in urls : u.shortUrl = shortCode}

\* The either-field query of the lookup endpoint.
LookupMatches(shortCode) == FindByCode(shortCode)

\* GET /api/lookup/:shortCode: Url.findOne rejects, misses or hits.
Lookup(seg) ==
  /\ Arrives
  /\ LET req == NewRead("lookup", Null, seg)
     IN \/ reads' = Append(reads, ReadFailed(req))
        \/ /\ LookupMatches(seg) = {}
           /\ reads' = Append(reads, Respond(req, 404, {}, {}))
        \/ \E url \in LookupMatches(seg) :
             reads' = Append(reads,
                        Respond(req, 200,
                                {[id |-> url._id, original_url |-> url.originalUrl]}, {}))
  /\ UNCHANGED <<urls, clicks, inserted, rd, cr, dl, posts, otp, au, call>>

\* Url.find / Url.countDocuments with the filter { userId: user }.
FindByUser(user) == {u \in urls : u.userId = user}

\* GET /api/urls: Url.countDocuments(filter) settles.
ListCount(user) ==
  /\ Arrives
  /\ LET req == NewRead("list", user, NoSuchId)
     IN \/ reads' = Append(reads, ReadFailed(req))
        \/ reads' = Append(reads, [req EXCEPT !.pc = "find",
                                              !.total = Cardinality(FindByUser(user))])
  /\ UNCHANGED <<urls, clicks, inserted, rd, cr, dl, posts, otp, au, call>>

\* GET /api/urls: Url.find(filter) settles; the page is part of what the
\* filter matches, here all of it.
ListFind(i) ==
  /\ i \in DOMAIN reads
  /\ reads[i].kind = "list"
  /\ reads[i].pc = "find"
  /\ \/ reads' = [reads EXCEPT ![i] = [ReadFailed(reads[i]) EXCEPT !.total = 0]]
     \/ reads' = [reads EXCEPT ![i] = Respond(reads[i], 200, FindByUser(reads[i].user), {})]
  /\ UNCHANGED <<urls, clicks, inserted, rd, cr, dl, posts, otp, au, call>>

\* GET /api/urls/:id: the owner-filtered Url.findOne rejects, misses or hits.
GetUrl(user, id) ==
  /\ Arrives
  /\ LET req == NewRead("get", user, id)
     IN \/ reads' = Append(reads, ReadFailed(req))
        \/ /\ FindOwned(id, user) = {}
           /\ reads' = Append(reads, Respond(req, 404, {}, {}))
        \/ \E url \in FindOwned(id, user) :
             reads' = Append(reads, Respond(req, 200, {url}, {}))
  /\ UNCHANGED <<urls, clicks, inserted, rd, cr, dl, posts, otp, au, call>>

\* GET /api/clicks/:urlId: the ownership query settles.
ClicksCheck(user, urlId) ==
  /\ Arrives
  /\ LET req == NewRead("clicks", user, urlId)
     IN \/ reads' = Append(reads, ReadFailed(req))
        \/ IF FindOwned(urlId, user) = {}
           THEN reads' = Append(reads, Respond(req, 404, {}, {}))
           ELSE reads' = Append(reads, [req EXCEPT !.pc = "find", !.valid = {urlId}])
  /\ UNCHANGED <<urls, clicks, inserted, rd, cr, dl, posts, otp, au, call>>

\* Url.find({ _id: { $in: urlIds }, userId: user }) mapped to its _ids.
ValidUrlIds(urlIds, user) == {id \in urlIds : FindOwned(id, user) # {}}

\* POST /api/clicks/multiple: the array test (a body without an array of
\* urlIds is answered 400), then the ownership query.
MultipleCheck(user, isArray, urlIds) ==
  /\ Arrives
  /\ LET req == NewRead("multiple", user, urlIds)
     IN IF ~isArray
        THEN reads' = Append(reads, Respond(req, 400, {}, {}))
        ELSE \/ reads' = Append(reads, ReadFailed(req))
             \/ reads' = Append(reads, [req EXCEPT !.pc = "find",
                                                   !.valid = ValidUrlIds(urlIds, user)])
  /\ UNCHANGED <<urls, clicks, inserted, rd, cr, dl, posts, otp, au, call>>

\* Click.find({ urlId: ... }) of either clicks route settles.
ClicksFind(i) ==
  /\ i \in DOMAIN reads
  /\ reads[i].kind \in {"clicks", "multiple"}
  /\ reads[i].pc = "find"
  /\ \/ reads' = [reads EXCEPT ![i] = ReadFailed(reads[i])]
     \/ reads' = [reads EXCEPT ![i] =
                    Respond(reads[i], 200, {},
                            {c \in clicks : c.urlId \in reads[i].valid})]
  /\ UNCHANGED <<urls, clicks, inserted, rd, cr, dl, posts, otp, au, call>>

\* The id arrays of the model: the ids of the first n links created, and an
\* id that no link has.
IdArrays == {1..n : n \in 0..Len(cr)} \cup {{NoSuchId}}

\* The users who read.  The link routes treat the two users alike, so it
\* is enough that one of them reads while either of them writes.
Readers == {"u1"}

\* No read request has been answered yet; none has arrived yet.
Watching == \A i \in DOMAIN reads : reads[i].pc # "done"
NoRead == reads = <<>>

\* The link routes, the public click insert and the read routes together.
\* A read changes nothing that another request can see, so a behaviour has
\* one read request and is followed up to its answer and no further.
ReadNext ==
  \/ \E user \in Users, customUrl \in Aliases, shortUrl \in GeneratedCodes :
       Watching /\ CreateCheck(user, customUrl, shortUrl)
  \/ \E c \in DOMAIN cr : Watching /\ CreateInsert(c)
  \/ \E user \in Users, shortUrl \in GeneratedCodes :
       Watching /\ CreatePlain(user, shortUrl)
  \/ \E user \in Users, id \in KnownIds : Watching /\ DeleteFind(user, id, TRUE)
  \/ \E d \in DOMAIN dl : Watching /\ DeleteClicks(d)
  \/ \E d \in DOMAIN dl : Watching /\ DeleteUrl(d)
  \/ \E urlId \in KnownIds, ok \in BOOLEAN :
       Watching /\ PostClick(urlId, "8.8.8.8", ok)
  \/ \E seg \in Segments : NoRead /\ Lookup(seg)
  \/ \E user \in Readers : NoRead /\ ListCount(user)
  \/ \E i \in DOMAIN reads : ListFind(i)
  \/ \E user \in Readers, id \in KnownIds : NoRead /\ GetUrl(user, id)
  \/ \E user \in Readers, urlId \in KnownIds : NoRead /\ ClicksCheck(user, urlId)
  \/ \E user \in Readers : NoRead /\ MultipleCheck(user, FALSE, {})
  \/ \E user \in Readers, urlIds \in IdArrays :
       NoRead /\ MultipleCheck(user, TRUE, urlIds)
  \/ \E i \in DOMAIN reads : ClicksFind(i)

ReadSpec == Init /\ [][ReadNext]_vars

\* ------------------------------------------------- the app's routing
\* A path is the sequence of its segments.  The app's stack in the order of
\* the app.use and app.get calls, and the stack of the redirect router in
\* the order of its router.get calls; a segment starting with a colon is a
\* parameter.
AppStack ==
  << [kind |-> "use", path |-> <<"api", "auth">>, handler |-> "authRoutes"],
     [kind |-> "use", path |-> <<"api", "urls">>, handler |-> "urlRoutes"],
     [kind |-> "use", path |-> <<"api", "clicks">>, handler |-> "clickRoutes"],
     [kind |-> "use", path |-> <<>>, handler |-> "redirectRoutes"],
     [kind |-> "get", path |-> <<"api", "health">>, handler |-> "health"],
     [kind |-> "get", path |-> <<"healthz">>, handler |-> "healthz"] >>
RedirectStack ==
  << [path |-> <<>>, handler |-> "info"],
     [path |-> <<":shortCode">>, handler |-> "redirect"],
     [path |-> <<"api", "lookup", ":shortCode">>, handler |-> "lookup"] >>

\* A route's pattern matches the whole path; a mount path matches a prefix.
RouteMatches(pattern, path) ==
  /\ Len(pattern) = Len(path)
  /\ \A k \in DOMAIN pattern : pattern[k] = ":shortCode" \/ pattern[k] = path[k]
MountMatches(prefix, path) ==
  /\ Len(prefix) <= Len(path)
  /\ \A k \in DOMAIN prefix : prefix[k] = path[k]

\* The handler of the first route of the redirect router, from its k-th on,
\* that matches; the router passes the request on when none does.
RECURSIVE RouterDispatch(_, _)
RouterDispatch(k, path) ==
  IF k > Len(RedirectStack) THEN "next"
  ELSE IF RouteMatches(RedirectStack[k].path, path) THEN RedirectStack[k].handler
  ELSE RouterDispatch(k + 1, path)

\* The handler that answers GET path: the layers of the app's stack are
\* tried in order from the k-th on, and none of the handlers passes a
\* request it has matched on to a later layer.
RECURSIVE Dispatch(_, _)
Dispatch(k, path) ==
  IF k > Len(AppStack) THEN "notFound"
  ELSE LET layer == AppStack[k]
       IN IF layer.kind = "get"
          THEN IF RouteMatches(layer.path, path) THEN layer.handler
               ELSE Dispatch(k + 1, path)
          ELSE IF ~MountMatches(layer.path, path) THEN Dispatch(k + 1, path)
          ELSE IF layer.handler # "redirectRoutes" THEN layer.handler
          ELSE IF RouterDispatch(1, path) # "next" THEN RouterDispatch(1, path)
          ELSE Dispatch(k + 1, path)

\* The paths of the GET requests: none of them is under the mount path of
\* the auth, urls or clicks router.
GetPaths ==
  {<<>>, <<"healthz">>, <<"api">>, <<"abc123">>, <<"api", "health">>,
   <<"api", "lookup", "abc123">>, <<"api", "health", "db">>}

\* The handlers that answer without a query: GET / and the two health
\* checks answer 200, and Express answers 404 for a path no layer handles.
Static(handler) ==
  /\ Arrives
  /\ reads' = Append(reads, Respond(NewRead(handler, Null, NoSuchId),
                                    IF handler = "notFound" THEN 404 ELSE 200, {}, {}))
  /\ UNCHANGED <<urls, clicks, inserted, rd, cr, dl, posts, otp, au, call>>

\* GET path arrives and is handled by the handler the stack gives it to.
Get(path, ip) ==
  LET handler == Dispatch(1, path)
  IN CASE handler = "redirect" -> RedirectLookup(path[1], ip)
       [] handler = "lookup" -> Lookup(path[3])
       [] OTHER -> Static(handler)

\* The aliases of the create requests: a user may ask for "healthz".
RouteAliases == {"healthz"}

RouteNext ==
  \/ \E path \in GetPaths, ip \in IPs : Get(path, ip)
  \/ \E r \in DOMAIN rd, outcome \in ProviderOutcomes : GeoReturn(r, outcome)
  \/ \E r \in DOMAIN rd, ok \in BOOLEAN : ClickCreate(r, ok)
  \/ \E user \in Users, customUrl \in RouteAliases, shortUrl \in GeneratedCodes :
        CreateCheck(user, customUrl, shortUrl)
  \/ \E c \in DOMAIN cr : CreateInsert(c)

RouteSpec == Init /\ [][RouteNext]_vars

\* ------------------------------------------------- rateLimiter middleware
\* otpRateLimiter.limit(identifier) within one window: success while fewer
\* than Limit requests of the identifier were counted.
LimiterAllows(identifier) == otp.hits[identifier] < Limit

\* A request to /signup, /resend-otp or /forgot-password passes through the
\* middleware: the limiter call rejects and the catch block lets the request
\* through, or the limiter allows it and next() runs, or it is answered 429.
OtpRequest(ip, email) ==
  /\ otp.n < MaxOtpRequests
  /\ LET identifier == Identifier(email, ip)
     IN \/ otp' = [otp EXCEPT !.n = @ + 1, !.through[ip] = @ + 1]
        \/ /\ LimiterAllows(identifier)
           /\ otp' = [otp EXCEPT !.n = @ + 1,
                                 !.hits[identifier] = @ + 1,
                                 !.granted[ip] = @ + 1,
                                 !.through[ip] = @ + 1]
        \/ /\ ~LimiterAllows(identifier)
           /\ otp' = [otp EXCEPT !.n = @ + 1, !.blocked[ip] = @ + 1]
  /\ UNCHANGED <<urls, clicks, inserted, rd, cr, dl, posts, reads, au, call>>

LimiterNext == \E ip \in OtpIPs, email \in Emails \cup {Null} : OtpRequest(ip, email)

LimiterSpec == Init /\ [][LimiterNext]_vars

\* ------------------------------------------------- routes/auth.js
\* The User model hashes a password before it is saved and comparePassword
\* hashes the candidate against the saved hash.
HashOf(pw) ==
  CASE pw = "pw1" -> "$2a$10$pw1"
    [] pw = "pw2" -> "$2a$10$pw2"
comparePassword(candidate, hash) == HashOf(candidate) = hash

\* What otpRateLimiter.limit does for a request: it reports success, reports
\* the identifier over the limit, or rejects.
LimiterReports == {"success", "limited", "threw"}

\* A request to a route of routes/auth.js: its route, its position, the
\* fields of its body, what the limiter did for it, how often its handler
\* was entered, the user document it loaded (existed, hash), the number of
\* the OTP it read, and its answer.
NewAuth(route, email) ==
  [route |-> route, pc |-> "start", email |-> email, otp |-> Null, pw |-> Null,
   type |-> Null, lim |-> "none", runs |-> 0, existed |-> "?", hash |-> Null,
   issue |-> 0, purpose |-> Null, status |-> 0, token |-> FALSE]

\* The handler sends its answer.
Done(req, status) == [req EXCEPT !.pc = "done", !.status = status]

\* A request that has finished with the OTP it presented.
OtpSuccess(req) ==
  req.route \in {"verify-email", "reset-password"} /\ req.status = 200

\* The answer of req leaves the server.  last is the answer the step just
\* taken has sent, if any; consumed collects the OTPs that requests have
\* succeeded with, and forgot the answers of forgot-password by whether the
\* account existed.
Reply(a, req) ==
  [a EXCEPT
     !.last = [route |-> req.route, email |-> req.email, otp |-> req.otp,
               lim |-> req.lim, runs |-> req.runs, existed |-> req.existed, status |-> req.status,
               token |-> req.token,
               reused |-> OtpSuccess(req) /\ <<req.email, req.issue>> \in a.consumed],
     !.consumed = IF OtpSuccess(req) THEN @ \cup {<<req.email, req.issue>>} ELSE @,
     !.forgot = IF req.route = "forgot-password" /\ req.existed # "?"
                THEN @ \cup {<<req.existed, req.status>>} ELSE @]

\* A request arrives and runs up to its first await that does not settle at
\* once, or to its answer.
Arrive(a, req) ==
  IF req.pc = "done"
  THEN [Reply(a, req) EXCEPT !.n = @ + 1]
  ELSE [a EXCEPT !.rq = Append(@, req), !.n = @ + 1, !.last = NoAnswer]

\* The i-th of the requests in flight goes on to req: to its next await, or
\* to its answer, after which nothing is left of it.
Step(a, i, req) ==
  IF req.pc = "done"
  THEN [Reply(a, req) EXCEPT
          !.rq = SubSeq(a.rq, 1, i - 1) \o SubSeq(a.rq, i + 1, Len(a.rq))]
  ELSE [a EXCEPT !.rq[i] = req, !.last = NoAnswer]

AuthArrives == au.n < MaxAuthRequests
At(i, route, pc) == i \in DOMAIN au.rq /\ au.rq[i].route = route /\ au.rq[i].pc = pc

\* Fault: a middleware that goes on to next() after it has answered 429.
rateLimiter_NoReturn(req, report, first) ==
  IF report = "limited"
  THEN [req EXCEPT !.lim = report, !.status = 429, !.runs = @ + 1, !.pc = first]
  ELSE [req EXCEPT !.lim = report, !.runs = @ + 1, !.pc = first]

\* The middleware in front of /signup, /resend-otp and /forgot-password:
\* 429 when the limiter reports the identifier over the limit; next() when it
\* reports success and, from the catch block, when it rejects.  next() enters
\* the handler, which runs up to its first await.
rateLimiter(req, report, first) ==
  IF report = "limited"
  THEN Done([req EXCEPT !.lim = report], 429)
  ELSE [req EXCEPT !.lim = report, !.runs = @ + 1, !.pc = first]

\* storeOtp: redis.setex replaces the value under the key of the email.
storeOtp(a, email, otpv) ==
  [a EXCEPT !.stored[email] = otpv, !.issue[email] = @ + 1]

\* What the OTP now stored for the email was issued for: 'verify' by signup,
\* the type of the body by resend-otp, 'reset' by forgot-password.  Redis
\* holds the OTP alone; the purpose is history.
IssuedFor(a, email, purpose) == [a EXCEPT !.purpose[email] = purpose]

\* deleteOtp: redis.del.
deleteOtp(a, email) == [a EXCEPT !.stored[email] = Null, !.purpose[email] = Null]

\* sendOtpEmail.
sendOtpEmail(a, email, type) == [a EXCEPT !.sent = @ \cup {<<email, type>>}]

\* --- POST /api/auth/signup
Signup(email, pw, report) ==
  /\ AuthArrives
  /\ au' = Arrive(au, rateLimiter([NewAuth("signup", email) EXCEPT !.pw = pw],
                                  report, "findOne"))
  /\ UNCHANGED <<urls, clicks, inserted, rd, cr, dl, posts, reads, otp, call>>

\* User.findOne({ email }) settles: 400 for an existing user.
SignupFind(i) ==
  /\ At(i, "signup", "findOne")
  /\ LET req == au.rq[i]
     IN au' = Step(au, i, IF req.email \in au.exists
                          THEN Done(req, 400)
                          ELSE [req EXCEPT !.pc = "create"])
  /\ UNCHANGED <<urls, clicks, inserted, rd, cr, dl, posts, reads, otp, call>>

\* User.create settles: the unique index on email rejects a second account.
SignupCreate(i, ok) ==
  /\ At(i, "signup", "create")
  /\ LET req == au.rq[i]
     IN IF ok /\ req.email \notin au.exists
        THEN au' = Step([au EXCEPT !.exists = @ \cup {req.email},
                                   !.password[req.email] = HashOf(req.pw)],
                        i, [req EXCEPT !.pc = "storeOtp"])
        ELSE au' = Step(au, i, Done(req, 500))
  /\ UNCHANGED <<urls, clicks, inserted, rd, cr, dl, posts, reads, otp, call>>

\* generateOtp and storeOtp.
SignupStore(i, otpv, ok) ==
  /\ At(i, "signup", "storeOtp")
  /\ LET req == au.rq[i]
     IN IF ok
        THEN au' = Step(IssuedFor(storeOtp(au, req.email, otpv), req.email, "verify"),
                        i, [req EXCEPT !.pc = "send"])
        ELSE au' = Step(au, i, Done(req, 500))
  /\ UNCHANGED <<urls, clicks, inserted, rd, cr, dl, posts, reads, otp, call>>

\* sendOtpEmail(email, otp, 'verify') settles: 201.
SignupSend(i, ok) ==
  /\ At(i, "signup", "send")
  /\ LET req == au.rq[i]
     IN IF ok
        THEN au' = Step(sendOtpEmail(au, req.email, "verify"), i, Done(req, 201))
        ELSE au' = Step(au, i, Done(req, 500))
  /\ UNCHANGED <<urls, clicks, inserted, rd, cr, dl, posts, reads, otp, call>>

\* --- POST /api/auth/verify-email and POST /api/auth/reset-password
\* Fault: an OTP check that accepts any supplied OTP while one is stored.
OtpAccepted_AnyOtp(storedOtp, otpv) == storedOtp # Null

\* !storedOtp is false and String(storedOtp) !== String(otp) is false.
OtpAccepted(storedOtp, otpv) == storedOtp # Null /\ storedOtp = otpv

\* getOtp settles and the two tests run: 400 unless the OTP is accepted.
OtpGate(req, ok, next) ==
  IF ~ok THEN Done(req, 500)
  ELSE IF ~OtpAccepted(au.stored[req.email], req.otp) THEN Done(req, 400)
  ELSE [req EXCEPT !.issue = au.issue[req.email],
                   !.purpose = au.purpose[req.email], !.pc = next]

VerifyGet(email, otpv, ok) ==
  /\ AuthArrives
  /\ au' = Arrive(au, OtpGate([NewAuth("verify-email", email) EXCEPT
                                 !.otp = otpv, !.runs = 1],
                              ok, "update"))
  /\ UNCHANGED <<urls, clicks, inserted, rd, cr, dl, posts, reads, otp, call>>

\* User.findOneAndUpdate({ email }, { isVerified: true }) settles: 404
\* without a user.
VerifyUpdate(i) ==
  /\ At(i, "verify-email", "update")
  /\ LET req == au.rq[i]
     IN IF req.email \notin au.exists
        THEN au' = Step(au, i, Done(req, 404))
        ELSE au' = Step([au EXCEPT !.verified = @ \cup {req.email}],
                        i, [req EXCEPT !.pc = "deleteOtp"])
  /\ UNCHANGED <<urls, clicks, inserted, rd, cr, dl, posts, reads, otp, call>>

\* deleteOtp settles; the token is generated and the answer sent.
VerifyDelete(i) ==
  /\ At(i, "verify-email", "deleteOtp")
  /\ LET req == au.rq[i]
     IN au' = Step(deleteOtp(au, req.email), i, [Done(req, 200) EXCEPT !.token = TRUE])
  /\ UNCHANGED <<urls, clicks, inserted, rd, cr, dl, posts, reads, otp, call>>

ResetGet(email, otpv, newPassword, ok) ==
  /\ AuthArrives
  /\ au' = Arrive(au, OtpGate([NewAuth("reset-password", email) EXCEPT
                                 !.otp = otpv, !.pw = newPassword, !.runs = 1],
                              ok, "findOne"))
  /\ UNCHANGED <<urls, clicks, inserted, rd, cr, dl, posts, reads, otp, call>>

\* User.findOne({ email }) settles: 404 without a user.
ResetFind(i) ==
  /\ At(i, "reset-password", "findOne")
  /\ LET req == au.rq[i]
     IN au' = Step(au, i, IF req.email \notin au.exists
                          THEN Done(req, 404)
                          ELSE [req EXCEPT !.pc = "save"])
  /\ UNCHANGED <<urls, clicks, inserted, rd, cr, dl, posts, reads, otp, call>>

\* user.password = newPassword; user.save() settles.
ResetSave(i) ==
  /\ At(i, "reset-password", "save")
  /\ LET req == au.rq[i]
     IN au' = Step([au EXCEPT !.password[req.email] = HashOf(req.pw)],
                   i, [req EXCEPT !.pc = "deleteOtp"])
  /\ UNCHANGED <<urls, clicks, inserted, rd, cr, dl, posts, reads, otp, call>>

\* deleteOtp settles and the answer is sent.
ResetDelete(i) ==
  /\ At(i, "reset-password", "deleteOtp")
  /\ LET req == au.rq[i]
     IN au' = Step(deleteOtp(au, req.email), i, Done(req, 200))
  /\ UNCHANGED <<urls, clicks, inserted, rd, cr, dl, posts, reads, otp, call>>

\* --- POST /api/auth/resend-otp
\* type is the type of the body, 'verify' when it has none.
ResendOtp(email, type, report) ==
  /\ AuthArrives
  /\ au' = Arrive(au, rateLimiter([NewAuth("resend-otp", email) EXCEPT !.type = type],
                                  report, "findOne"))
  /\ UNCHANGED <<urls, clicks, inserted, rd, cr, dl, posts, reads, otp, call>>

\* User.findOne({ email }) settles: 404 without a user.
ResendFind(i) ==
  /\ At(i, "resend-otp", "findOne")
  /\ LET req == au.rq[i]
     IN au' = Step(au, i, IF req.email \notin au.exists
                          THEN Done(req, 404)
                          ELSE [req EXCEPT !.pc = "storeOtp"])
  /\ UNCHANGED <<urls, clicks, inserted, rd, cr, dl, posts, reads, otp, call>>

ResendStore(i, otpv) ==
  /\ At(i, "resend-otp", "storeOtp")
  /\ LET req == au.rq[i]
     IN au' = Step(IssuedFor(storeOtp(au, req.email, otpv), req.email, req.type),
                   i, [req EXCEPT !.pc = "send"])
  /\ UNCHANGED <<urls, clicks, inserted, rd, cr, dl, posts, reads, otp, call>>

ResendSend(i) ==
  /\ At(i, "resend-otp", "send")
  /\ LET req == au.rq[i]
     IN au' = Step(sendOtpEmail(au, req.email, req.type), i, Done(req, 200))
  /\ UNCHANGED <<urls, clicks, inserted, rd, cr, dl, posts, reads, otp, call>>

\* --- POST /api/auth/login
\* Fault: a login that does not look at the flag.
isVerified_Off(email) == TRUE

\* user.isVerified of the document loaded.
isVerified(email) == email \in au.verified

\* User.findOne({ email }).select('+password') settles: 401 without a user
\* and for an unverified one; otherwise comparePassword is called on the
\* document that was loaded.
LoginFind(email, pw, ok) ==
  /\ AuthArrives
  /\ LET req == [NewAuth("login", email) EXCEPT !.pw = pw, !.runs = 1]
     IN au' = Arrive(au,
                 IF ~ok THEN Done(req, 500)
                 ELSE IF email \notin au.exists THEN Done(req, 401)
                 ELSE IF ~isVerified(email) THEN Done(req, 401)
                 ELSE [req EXCEPT !.hash = au.password[email], !.pc = "compare"])
  /\ UNCHANGED <<urls, clicks, inserted, rd, cr, dl, posts, reads, otp, call>>

\* user.comparePassword(password) settles: the token, or 401.
LoginCompare(i) ==
  /\ At(i, "login", "compare")
  /\ LET req == au.rq[i]
     IN au' = Step(au, i, IF comparePassword(req.pw, req.hash)
                          THEN [Done(req, 200) EXCEPT !.token = TRUE]
                          ELSE Done(req, 401))
  /\ UNCHANGED <<urls, clicks, inserted, rd, cr, dl, posts, reads, otp, call>>

\* --- POST /api/auth/forgot-password
ForgotPassword(email, report) ==
  /\ AuthArrives
  /\ au' = Arrive(au, rateLimiter(NewAuth("forgot-password", email), report, "findOne"))
  /\ UNCHANGED <<urls, clicks, inserted, rd, cr, dl, posts, reads, otp, call>>

\* User.findOne({ email }) settles: without a user the generic answer is
\* sent at once.
ForgotFind(i) ==
  /\ At(i, "forgot-password", "findOne")
  /\ LET req == au.rq[i]
     IN au' = Step(au, i, IF req.email \notin au.exists
                          THEN Done([req EXCEPT !.existed = "no"], 200)
                          ELSE [req EXCEPT !.existed = "yes", !.pc = "storeOtp"])
  /\ UNCHANGED <<urls, clicks, inserted, rd, cr, dl, posts, reads, otp, call>>

ForgotStore(i, otpv, ok) ==
  /\ At(i, "forgot-password", "storeOtp")
  /\ LET req == au.rq[i]
     IN IF ok
        THEN au' = Step(IssuedFor(storeOtp(au, req.email, otpv), req.email, "reset"),
                        i, [req EXCEPT !.pc = "send"])
        ELSE au' = Step(au, i, Done(req, 500))
  /\ UNCHANGED <<urls, clicks, inserted, rd, cr, dl, posts, reads, otp, call>>

\* sendOtpEmail(email, otp, 'reset') settles: the generic answer.
ForgotSend(i, ok) ==
  /\ At(i, "forgot-password", "send")
  /\ LET req == au.rq[i]
     IN IF ok
        THEN au' = Step(sendOtpEmail(au, req.email, "reset"), i, Done(req, 200))
        ELSE au' = Step(au, i, Done(req, 500))
  /\ UNCHANGED <<urls, clicks, inserted, rd, cr, dl, posts, reads, otp, call>>

\* --- Redis
\* The ten minutes of OTP_EXPIRY are over for the OTP of an email.
OtpExpires(email) ==
  /\ au.stored[email] # Null
  /\ au' = [deleteOtp(au, email) EXCEPT !.last = NoAnswer]
  /\ UNCHANGED <<urls, clicks, inserted, rd, cr, dl, posts, reads, otp, call>>

\* The bodies of the requests.  Accounts are symmetric in their email and
\* password: the signups are those of one email with one password, and a
\* reset sets the other password.  The other email is one without an
\* account; verify-email and forgot-password are asked about it too.  The
\* bodies of /resend-otp have the default type; OTPs for a reset come from
\* forgot-password.
SignupEmails == {"a@example.com"}
SignupPasswords == {"pw1"}
NewPasswords == {"pw2"}

AuthNext ==
  \/ \E email \in SignupEmails, pw \in SignupPasswords : Signup(email, pw, "success")
  \/ \E i \in DOMAIN au.rq : SignupFind(i)
  \/ \E i \in DOMAIN au.rq, ok \in BOOLEAN : SignupCreate(i, ok)
  \/ \E i \in DOMAIN au.rq, otpv \in OtpValues, ok \in BOOLEAN : SignupStore(i, otpv, ok)
  \/ \E i \in DOMAIN au.rq, ok \in BOOLEAN : SignupSend(i, ok)
  \/ \E email \in Emails, otpv \in OtpValues, ok \in BOOLEAN : VerifyGet(email, otpv, ok)
  \/ \E i \in DOMAIN au.rq : VerifyUpdate(i)
  \/ \E i \in DOMAIN au.rq : VerifyDelete(i)
  \/ \E email \in SignupEmails, otpv \in OtpValues, pw \in NewPasswords, ok \in BOOLEAN :
        ResetGet(email, otpv, pw, ok)
  \/ \E i \in DOMAIN au.rq : ResetFind(i)
  \/ \E i \in DOMAIN au.rq : ResetSave(i)
  \/ \E i \in DOMAIN au.rq : ResetDelete(i)
  \/ \E email \in SignupEmails : ResendOtp(email, "verify", "success")
  \/ \E i \in DOMAIN au.rq : ResendFind(i)
  \/ \E i \in DOMAIN au.rq, otpv \in OtpValues : ResendStore(i, otpv)
  \/ \E i \in DOMAIN au.rq : ResendSend(i)
  \/ \E email \in SignupEmails, pw \in Passwords, ok \in BOOLEAN :
        LoginFind(email, pw, ok)
  \/ \E i \in DOMAIN au.rq : LoginCompare(i)
  \/ \E email \in Emails : ForgotPassword(email, "success")
  \/ \E i \in DOMAIN au.rq : ForgotFind(i)
  \/ \E i \in DOMAIN au.rq, otpv \in OtpValues, ok \in BOOLEAN : ForgotStore(i, otpv, ok)
  \/ \E i \in DOMAIN au.rq, ok \in BOOLEAN : ForgotSend(i, ok)
  \/ \E email \in Emails : OtpExpires(email)

AuthSpec == Init /\ [][AuthNext]_vars

\* The three routes behind the middleware, with everything the limiter can
\* do for a request, whatever its counters are.  The bodies of /resend-otp
\* have the default type.  Which OTP generateOtp returns makes no difference
\* to the middleware: it returns one value here.
GateOtps == {"111111"}
GateNext ==
  \/ \E email \in SignupEmails, pw \in SignupPasswords, report \in LimiterReports :
        Signup(email, pw, report)
  \/ \E i \in DOMAIN au.rq : SignupFind(i)
  \/ \E i \in DOMAIN au.rq, ok \in BOOLEAN : SignupCreate(i, ok)
  \/ \E i \in DOMAIN au.rq, otpv \in GateOtps, ok \in BOOLEAN : SignupStore(i, otpv, ok)
  \/ \E i \in DOMAIN au.rq, ok \in BOOLEAN : SignupSend(i, ok)
  \/ \E email \in SignupEmails, report \in LimiterReports :
        ResendOtp(email, "verify", report)
  \/ \E i \in DOMAIN au.rq : ResendFind(i)
  \/ \E i \in DOMAIN au.rq, otpv \in GateOtps : ResendStore(i, otpv)
  \/ \E i \in DOMAIN au.rq : ResendSend(i)
  \/ \E email \in Emails, report \in LimiterReports : ForgotPassword(email, report)
  \/ \E i \in DOMAIN au.rq : ForgotFind(i)
  \/ \E i \in DOMAIN au.rq, otpv \in GateOtps, ok \in BOOLEAN : ForgotStore(i, otpv, ok)
  \/ \E i \in DOMAIN au.rq, ok \in BOOLEAN : ForgotSend(i, ok)

GateSpec == Init /\ [][GateNext]_vars

\* ------------------------------------------- the pure helpers, applied
\* The inputs the helpers are applied to.  req.ip and the first entry of
\* x-forwarded-for are arbitrary strings: loopback, private, public and
\* IPv4-mapped addresses, and getClientIP's fallback "Unknown".
GeoIPs ==
  {"127.0.0.1", "::1", "localhost", "192.168.1.7", "10.0.0.5", "8.8.8.8",
   "100.0.0.5", "172.16.0.9", "::ffff:127.0.0.1", "Unknown"}
GeoOutcomes ==
  ProviderOutcomes \cup
  {"successNoCountry", "successNoRegion", "successEmptyCity", "successBare"}

PendingCalls ==
  {[NoCall EXCEPT !.fn = "getGeolocation", !.ip = ip, !.outcome = o] :
     ip \in GeoIPs, o \in GeoOutcomes}
  \cup {[NoCall EXCEPT !.fn = f, !.ua = ua] :
          f \in {"getDeviceType", "getOS"}, ua \in UserAgents}
  \cup {[NoCall EXCEPT !.fn = "getBrowser", !.ua = ua] : ua \in BrowserAgents}
  \cup {[NoCall EXCEPT !.fn = "getClientIP", !.forwarded = f, !.connection = c,
                       !.socket = s, !.ip = i] :
          f \in ForwardedHeaders, c \in ConnectionAddrs, s \in SocketAddrs,
          i \in ReqIps}

\* One helper is about to be applied to one input.
PureInit ==
  /\ urls = {}
  /\ clicks = {}
  /\ inserted = {}
  /\ rd = <<>>
  /\ cr = <<>>
  /\ dl = <<>>
  /\ posts = 0
  /\ reads = <<>>
  /\ otp = NoOtp
  /\ au = NoAuth
  /\ call \in PendingCalls

ApplyGeolocation ==
  /\ call.fn = "getGeolocation"
  /\ ~call.done
  /\ call' = [call EXCEPT !.done = TRUE,
                          !.fetched = CallsProvider(call.ip),
                          !.out = getGeolocation(call.ip, call.outcome)]
  /\ UNCHANGED <<urls, clicks, inserted, rd, cr, dl, posts, reads, otp, au>>

ApplyDeviceType ==
  /\ call.fn = "getDeviceType"
  /\ ~call.done
  /\ call' = [call EXCEPT !.done = TRUE, !.out = getDeviceType(call.ua)]
  /\ UNCHANGED <<urls, clicks, inserted, rd, cr, dl, posts, reads, otp, au>>

ApplyOS ==
  /\ call.fn = "getOS"
  /\ ~call.done
  /\ call' = [call EXCEPT !.done = TRUE, !.out = getOS(call.ua)]
  /\ UNCHANGED <<urls, clicks, inserted, rd, cr, dl, posts, reads, otp, au>>

ApplyBrowser ==
  /\ call.fn = "getBrowser"
  /\ ~call.done
  /\ call' = [call EXCEPT !.done = TRUE, !.out = getBrowser(call.ua)]
  /\ UNCHANGED <<urls, clicks, inserted, rd, cr, dl, posts, reads, otp, au>>

ApplyClientIP ==
  /\ call.fn = "getClientIP"
  /\ ~call.done
  /\ call' = [call EXCEPT !.done = TRUE,
                          !.out = getClientIP(call.forwarded, call.connection,
                                              call.socket, call.ip)]
  /\ UNCHANGED <<urls, clicks, inserted, rd, cr, dl, posts, reads, otp, au>>

PureNext ==
  \/ ApplyGeolocation
  \/ ApplyDeviceType
  \/ ApplyOS
  \/ ApplyBrowser
  \/ ApplyClientIP

PureSpec == PureInit /\ [][PureNext]_vars

\* ================================================================ claims
\* The request answered by the current step, if it is a redirect request.
NewRedirects == DOMAIN rd' \ DOMAIN rd

\* C1: for every ShortLink of the store and every string equal to its short
\* code or to its custom alias, GET /:shortCode with that segment is answered
\* 302 with that ShortLink's destination URL as target, whenever the store
\* lookup itself succeeds (the answer is not the 500 of a rejected lookup).
C1_KnownCodeRedirects ==
  [][\A r \in NewRedirects :
       rd'[r].status # 500 =>
         \A u \in urls :
           (u.shortUrl = rd'[r].shortCode \/ u.customUrl = rd'[r].shortCode) =>
             rd'[r].status = 302 /\ rd'[r].location = u.originalUrl]_vars

\* No ClickEvent was ever inserted on behalf of redirect request r.
NoClickFor(r) == \A c \in inserted : c.via # r

\* C2 as stated: a segment that is neither the short code nor the alias of
\* a stored ShortLink is answered 404, and no ClickEvent is ever inserted on
\* behalf of the request.
C2_UnknownCode404 ==
  /\ [][\A r \in NewRedirects :
          FindByCode(rd'[r].shortCode) = {} => rd'[r].status = 404]_vars
  /\ [](\A r \in DOMAIN rd : rd[r].status = 404 => NoClickFor(r))

\* C2 amended: such a segment is answered 404 whenever the store lookup
\* succeeds and 500 when it is rejected, never 302; the handler returns at
\* once and no ClickEvent is ever inserted on behalf of the request.
C2_UnknownCodeNoRedirect ==
  /\ [][\A r \in NewRedirects :
          FindByCode(rd'[r].shortCode) = {} =>
            rd'[r].status \in {404, 500} /\ rd'[r].pc = "done"]_vars
  /\ [](\A r \in DOMAIN rd :
          rd[r].status \in {404, 500} => rd[r].pc = "done" /\ NoClickFor(r))

\* A segment that no stored ShortLink has was answered 404 while other
\* ShortLinks are stored.
C2_Witness ==
  /\ urls # {}
  /\ \E r \in DOMAIN rd :
       rd[r].status = 404 /\ rd[r].shortCode # "api" /\ FindByCode(rd[r].shortCode) = {}

\* C3: the 302 is sent before the ClickEvent insert is attempted and never
\* waits for the geolocation call or the insert: the step in which the store
\* lookup returns is the step that answers, and in every state in which the
\* geolocation call is in flight (for ever, possibly), the insert is pending
\* or the insert has settled, the response has already been sent.
C3_ResponseFirst ==
  /\ [][\A r \in NewRedirects : rd'[r].status # 0]_vars
  /\ [](\A r \in DOMAIN rd :
          (rd[r].pc \in {"fetch", "create"} \/ rd[r].click # "none") =>
            rd[r].status = 302)

\* A geolocation call is in flight, and the insert of a local IP's request
\* is pending, both with their 302 sent.
C3_Witness ==
  /\ \E r \in DOMAIN rd : rd[r].pc = "fetch" /\ rd[r].status = 302
  /\ \E r \in DOMAIN rd :
       rd[r].pc = "create" /\ IsLocalIP(rd[r].ip) /\ rd[r].status = 302

\* C4 as stated, in the form a finite run refutes: once the background task
\* of a resolved redirect request has ended, a ClickEvent referencing its
\* ShortLink has been created.
C4_ClickCreated ==
  \A r \in DOMAIN rd :
    (rd[r].status = 302 /\ rd[r].pc = "done") =>
      \E c \in inserted : c.via = r /\ c.urlId = rd[r].urlId

\* C4 amended: under fair scheduling of the background task, every resolved
\* redirect request eventually ends its background task, having attempted one
\* insert; when the insert succeeds, a ClickEvent referencing the resolved
\* ShortLink is created by it, after a geolocation success and after a
\* geolocation failure alike, with city, country and region all "Unknown"
\* in the latter case.  A rejected insert creates nothing.
\* (A behaviour receives finitely many requests and an ended task stays
\* ended, so "each resolved request's task eventually ends" is "eventually
\* every resolved request's task has ended, for good".)
C4_ClickEventually ==
  /\ <>[](\A r \in DOMAIN rd : rd[r].status = 302 => rd[r].pc = "done")
  /\ [][\A r \in DOMAIN rd :
          (rd[r].pc = "create" /\ rd'[r].click = "saved") =>
            \E c \in clicks' \ clicks :
              /\ c.via = r
              /\ c.urlId = rd[r].urlId
              /\ rd[r].provider = "failed" =>
                   <<c.city, c.country, c.region>> = <<"Unknown", "Unknown", "Unknown">>]_vars

\* A resolved request's ClickEvent was created after a failed geolocation.
C4_Witness ==
  \E r \in DOMAIN rd :
    /\ rd[r].status = 302 /\ rd[r].click = "saved"
    /\ \E c \in inserted : c.via = r /\ c.country = "Unknown"

\* The resolved redirect requests for ShortLink id whose background task ended.
Completed(id) ==
  {r \in DOMAIN rd : rd[r].status = 302 /\ rd[r].urlId = id /\ rd[r].pc = "done"}

\* The ClickEvents inserted by the requests rs.
InsertedBy(rs) == {c \in inserted : c.via \in rs}

\* C5 as stated: the N resolved redirect requests for one ShortLink that
\* have completed their background work have inserted exactly N ClickEvents
\* referencing it.
C5_OnePerRequest ==
  \A id \in DOMAIN cr :
    Cardinality(InsertedBy(Completed(id))) = Cardinality(Completed(id))

\* C5 amended: each resolved redirect request inserts one ClickEvent when
\* its insert succeeds and none when its insert is rejected, with no
\* deduplication: of N completed requests for one ShortLink of which F had
\* their insert rejected, exactly N - F ClickEvents referencing it were
\* inserted, and a request not yet completed has inserted none.
C5_OnePerSavedRequest ==
  /\ \A id \in DOMAIN cr :
       /\ Cardinality(InsertedBy(Completed(id))) =
            Cardinality({r \in Completed(id) : rd[r].click = "saved"})
       /\ \A c \in InsertedBy(Completed(id)) : c.urlId = id
  /\ \A r \in DOMAIN rd :
       Cardinality(InsertedBy({r})) = IF rd[r].click = "saved" THEN 1 ELSE 0

\* Two redirect requests for the same ShortLink have both recorded a click.
C5_Witness ==
  \E r1, r2 \in DOMAIN rd :
    /\ r1 # r2
    /\ rd[r1].urlId = rd[r2].urlId
    /\ rd[r1].click = "saved" /\ rd[r2].click = "saved"

\* C6: every ClickEvent references a ShortLink that is in the store at the
\* moment the ClickEvent is inserted.
C6_ClickReferencesLink ==
  [][\A c \in inserted' \ inserted : \E u \in urls : u._id = c.urlId]_vars

\* C7: once DELETE /api/urls/:id has answered success for a ShortLink, no
\* ClickEvent referencing it is in the store, then or later.
C7_DeleteCascades ==
  \A d \in DOMAIN dl :
    dl[d].status = 200 => \A c \in clicks : c.urlId # dl[d].id

\* C8: no two ShortLinks have the same short code and no two have the same
\* custom alias, while any number may have none.
C8_UniqueCodeAndAlias ==
  \A u, v \in urls :
    u # v =>
      /\ u.shortUrl # v.shortUrl
      /\ (u.customUrl # Null => u.customUrl # v.customUrl)

\* C9: for every string at most one ShortLink has it as short code or as
\* custom alias.
C9_LookupUnambiguous ==
  \A s \in Segments : Cardinality(FindByCode(s)) <= 1

\* C10: a redirect request answered with the generic 500 was issued no
\* redirect, its handler has returned without starting the background task,
\* and no ClickEvent is ever recorded for it.
C10_ErrorNoRedirectNoClick ==
  \A r \in DOMAIN rd :
    rd[r].status = 500 =>
      /\ rd[r].location = Null
      /\ rd[r].urlId = NoSuchId
      /\ rd[r].pc = "done"
      /\ rd[r].click = "none"
      /\ NoClickFor(r)

\* The store lookup of a redirect request was rejected while a ShortLink
\* with that code is stored.
C10_Witness ==
  \E r \in DOMAIN rd : rd[r].status = 500 /\ FindByCode(rd[r].shortCode) # {}


\* ------------------------------------------------------------------ C11
\* C11: no failure of the background enrichment-and-record task escapes it.
\* Whatever the provider did and whether or not the insert was accepted, the
\* task of an answered redirect ends as "saved" or as "failed" (the error
\* caught and logged), never as an unhandled rejection; the steps of the
\* task leave the response already sent as it is and touch no other request.
InBackground(r) == rd[r].pc \in {"fetch", "create"}

C11_BackgroundContained ==
  /\ [](\A r \in DOMAIN rd :
         /\ rd[r].click \in {"none", "saved", "failed"}
         /\ (rd[r].status = 302 /\ rd[r].pc = "done")
              => rd[r].click \in {"saved", "failed"})
  /\ [][\A r \in DOMAIN rd :
          (InBackground(r) /\ rd'[r] # rd[r]) =>
             /\ rd'[r].status = rd[r].status
             /\ rd'[r].location = rd[r].location
             /\ rd'[r].pc \in {"create", "done"}
             /\ \A q \in DOMAIN rd \ {r} : rd'[q] = rd[q]
             /\ <<urls, cr, dl>>' = <<urls, cr, dl>>]_vars

\* Witness: a background task ended on a rejected insert, its request was
\* answered 302 all the same, and another request's ClickEvent was saved.
C11_Witness ==
  \E r, q \in DOMAIN rd :
     /\ rd[r].click = "failed" /\ rd[r].status = 302
     /\ q # r /\ rd[q].click = "saved"


\* ------------------------------------------------------------------ C12
Returned(fn) == call.fn = fn /\ call.done

\* C12: getGeolocation is total and never raises.  Applied to any IP it
\* returns a triple of three texts; when the provider reports success each
\* field is the provider's, or "Unknown" where the provider left it out;
\* on a non-success status, a body that does not parse or a network error
\* it returns the Unknown triple.
C12_GeolocationTotal ==
  /\ (call.fn = "getGeolocation" /\ ~call.done) => ENABLED ApplyGeolocation
  /\ Returned("getGeolocation") =>
       /\ \A f \in {"city", "country", "region"} : call.out[f] \notin {Null, ""}
       /\ call.fetched =>
            /\ call.outcome = "success" =>
                 call.out = [city |-> "Paris", country |-> "France", region |-> "IDF"]
            /\ call.outcome = "successNoCity" =>
                 call.out = [city |-> "Unknown", country |-> "France", region |-> "Unknown"]
            /\ call.outcome = "successNoCountry" =>
                 call.out = [city |-> "Paris", country |-> "Unknown", region |-> "IDF"]
            /\ call.outcome = "successNoRegion" =>
                 call.out = [city |-> "Paris", country |-> "France", region |-> "Unknown"]
            /\ call.outcome = "successEmptyCity" =>
                 call.out = [city |-> "Unknown", country |-> "France", region |-> "IDF"]
            /\ call.outcome = "successBare" => call.out = Unknown3
            /\ call.outcome \in {"fail", "malformed", "networkError"} =>
                 call.out = Unknown3

\* Witness: the provider call ended in a network error and the Unknown
\* triple came back.
C12_Witness ==
  /\ Returned("getGeolocation")
  /\ call.fetched /\ call.outcome = "networkError"
  /\ call.out = Unknown3

\* ------------------------------------------------------------------ C13
\* The IPs of the model that are the loopback addresses, "localhost", or
\* start with "192.168." or "10.".
ClaimedLocal == {"127.0.0.1", "::1", "localhost", "192.168.1.7", "10.0.0.5"}

\* C13: for a loopback address, "localhost" or an IP with a private prefix
\* getGeolocation returns the Local triple and makes no outbound call; an
\* outbound call is made only for an IP outside that set.
C13_LocalNoOutbound ==
  Returned("getGeolocation") =>
    /\ call.ip \in ClaimedLocal => (call.out = Local3 /\ ~call.fetched)
    /\ call.fetched => call.ip \notin ClaimedLocal

\* Witness: getGeolocation returned for the IPv6 loopback.
C13_Witness ==
  /\ Returned("getGeolocation")
  /\ call.ip = "::1" /\ call.out = Local3 /\ ~call.fetched


\* ------------------------------------------------------------------ C14
\* C14: a request whose segment is the reserved "api" is answered 404
\* without Url.findOne being invoked for it and without a ClickEvent,
\* whatever ShortLinks are stored (one with the alias "api" included).
C14_ReservedSkipsLookup ==
  /\ [][\A r \in NewRedirects :
          rd'[r].shortCode = "api" =>
             /\ rd'[r].status = 404
             /\ rd'[r].pc = "done"
             /\ ~rd'[r].lookedUp]_vars
  /\ [](\A r \in DOMAIN rd :
          rd[r].shortCode = "api" =>
             /\ rd[r].status = 404
             /\ ~rd[r].lookedUp
             /\ NoClickFor(r))

\* Witness: GET /api was answered 404 while a ShortLink with the alias
\* "api" is stored.
C14_Witness ==
  /\ FindByCode("api") # {}
  /\ \E r \in DOMAIN rd : rd[r].shortCode = "api" /\ rd[r].status = 404


\* ------------------------------------------------------------------ C15
NewReads == DOMAIN reads' \ DOMAIN reads

\* The stored ShortLinks whose short code or custom alias is the segment.
Named(seg) == {u \in urls : seg \in {u.shortUrl, u.customUrl}}

LookupData(u) == {[id |-> u._id, original_url |-> u.originalUrl]}

\* A lookup request changes neither collection.
LookupIsPureRead ==
  \A i \in NewReads :
     reads'[i].kind = "lookup" =>
        <<urls, clicks, inserted>>' = <<urls, clicks, inserted>>

\* C15 as stated: GET /api/lookup/:shortCode is a pure read; it answers
\* success with the id and destination of the ShortLink exactly when the
\* segment is the short code or alias of a stored ShortLink, and 404
\* otherwise.
C15_LookupExact ==
  [][/\ LookupIsPureRead
     /\ \A i \in NewReads :
          reads'[i].kind = "lookup" =>
             IF Named(reads'[i].arg) # {}
             THEN /\ reads'[i].status = 200
                  /\ \E u \in Named(reads'[i].arg) : reads'[i].links = LookupData(u)
             ELSE reads'[i].status = 404]_vars

\* C15, amended: the lookup endpoint is a pure read; unless the store query
\* rejects (the answer is then 500), it answers success with the id and
\* destination of a ShortLink the segment names when there is one, and 404
\* when there is none.
C15_LookupExactUnlessThrown ==
  [][/\ LookupIsPureRead
     /\ \A i \in NewReads :
          reads'[i].kind = "lookup" =>
             /\ reads'[i].pc = "done"
             /\ reads'[i].status \in {200, 404, 500}
             /\ reads'[i].status = 200 =>
                  \E u \in Named(reads'[i].arg) : reads'[i].links = LookupData(u)
             /\ reads'[i].status = 404 => Named(reads'[i].arg) = {}
             /\ reads'[i].status # 200 => reads'[i].links = {}
             /\ reads'[i].events = {}]_vars

\* Witness: a lookup by custom alias was answered with that ShortLink.
C15_Witness ==
  \E i \in DOMAIN reads :
     /\ reads[i].kind = "lookup"
     /\ reads[i].status = 200
     /\ \E u \in urls : u.customUrl = reads[i].arg /\ reads[i].links = LookupData(u)

\* ------------------------------------------------------------------ C16
PerUser(i) == reads[i].kind \in {"list", "get", "clicks", "multiple"}

\* Some other user has a ShortLink with this id.
OthersLink(id, user) == \E u \in urls : u._id = id /\ u.userId # user

\* What a per-user read route has let through or answered holds nothing of
\* another user: every ShortLink returned is the requester's, and no id let
\* through by the ownership query and no ClickEvent returned belongs to a
\* ShortLink of somebody else.
OnlyOwnData ==
  \A i \in DOMAIN reads :
     PerUser(i) =>
        /\ \A l \in reads[i].links : l.userId = reads[i].user
        /\ \A id \in reads[i].valid : ~OthersLink(id, reads[i].user)
        /\ \A c \in reads[i].events : ~OthersLink(c.urlId, reads[i].user)

\* The ClickEvents returned are those of the ids the ownership query let
\* through, and an id is let through only while the requester owns its link.
OnlyValidated ==
  /\ \A i \in DOMAIN reads :
       (PerUser(i) /\ i \in DOMAIN reads') =>
          \A c \in reads'[i].events : c.urlId \in reads[i].valid
  /\ \A i \in NewReads :
       reads'[i].kind \in {"clicks", "multiple"} =>
          \A id \in reads'[i].valid :
             \E u \in urls : u._id = id /\ u.userId = reads'[i].user

\* C16 as stated: the per-user read routes return only the requester's
\* ShortLinks and only ClickEvents of the requester's ShortLinks, and a
\* request naming another user's ShortLink gets 404.
C16_ScopedPerUser ==
  /\ []OnlyOwnData
  /\ [][/\ OnlyValidated
         /\ \A i \in NewReads :
              (reads'[i].kind \in {"get", "clicks"}
                 /\ OthersLink(reads'[i].arg, reads'[i].user)) =>
                 reads'[i].status = 404]_vars

\* C16, amended: as above, but a request naming another user's ShortLink
\* gets 404 unless the store query rejects, and then the generic 500; in
\* both cases the answer carries no document.
C16_ScopedPerUserUnlessThrown ==
  /\ []OnlyOwnData
  /\ [][/\ OnlyValidated
         /\ \A i \in NewReads :
              (reads'[i].kind \in {"get", "clicks"}
                 /\ OthersLink(reads'[i].arg, reads'[i].user)) =>
                 /\ reads'[i].status \in {404, 500}
                 /\ reads'[i].pc = "done"
                 /\ reads'[i].links = {} /\ reads'[i].events = {}]_vars

\* Witness: GET /api/clicks/:urlId naming another user's ShortLink, which
\* has a ClickEvent, was answered 404.
C16_Witness ==
  \E i \in DOMAIN reads :
     /\ reads[i].kind = "clicks"
     /\ reads[i].status = 404
     /\ OthersLink(reads[i].arg, reads[i].user)
     /\ \E c \in clicks : c.urlId = reads[i].arg


\* ------------------------------------------------------------------ C17
\* C17: the OTP rate limiter limits each IP to 5 requests per minute.
\* Within a one-minute window at most 5 requests of one client address are
\* let through by the limiter to the signup, resend-otp and forgot-password
\* handlers, whatever bodies they carry.  (Only the requests the limiter
\* itself allowed are counted here, not those let through because the
\* limiter call failed.)
C17_FivePerIP == \A ip \in OtpIPs : otp.granted[ip] <= Limit


\* ------------------------------------------------------------------ C18
\* The header of the call is present and has one of the given words.
HasWord(ws) == call.ua.given /\ \E i \in DOMAIN call.ua.words : call.ua.words[i] \in ws

\* The words that carry a token of the mobile pattern, and those that carry
\* only the token "tablet".
MobileWords ==
  {"Mobile", "Android", "ANDROID", "iPhone", "iPad", "iPod", "BlackBerry",
   "IEMobile", "Opera Mini"}
TabletWords == {"Tablet", "TABLET"}

\* C18 as stated: the device classifier has no reachable tablet outcome;
\* getDeviceType never returns "tablet".
C18_TabletUnreachable == Returned("getDeviceType") => call.out # "tablet"

\* C18, amended: a match of a token of the first pattern, "ipad" among them,
\* yields "mobile"; getDeviceType returns "tablet" exactly for a user-agent
\* that has the token "tablet" and no token of the first pattern.
C18_TabletOnlyByTabletToken ==
  Returned("getDeviceType") =>
    /\ HasWord(MobileWords) => call.out = "mobile"
    /\ call.out = "tablet" <=> (HasWord(TabletWords) /\ ~HasWord(MobileWords))

\* Witness: a desktop Windows user-agent with the word "Tablet" was
\* classified as a tablet.
C18_Witness ==
  /\ Returned("getDeviceType")
  /\ HasWord(TabletWords) /\ HasWord({"Windows NT 6.2"})
  /\ call.out = "tablet"

\* ------------------------------------------------------------------ C19
\* C19: getDeviceType returns "mobile", "tablet" or "desktop"; an empty or
\* absent user-agent yields "desktop"; matching ignores letter case; a
\* user-agent with a mobile token yields "mobile" even when it also has a
\* tablet token; one with neither kind of token yields "desktop".
C19_DeviceClasses ==
  Returned("getDeviceType") =>
    /\ call.out \in {"mobile", "tablet", "desktop"}
    /\ (~call.ua.given \/ call.ua.words = <<>>) => call.out = "desktop"
    /\ HasWord({"ANDROID", "Android"}) => call.out = "mobile"
    /\ HasWord(MobileWords) => call.out = "mobile"
    /\ (HasWord(Words) /\ ~HasWord(MobileWords \cup TabletWords)) => call.out = "desktop"

\* Witness: a user-agent with "iPad" and "Tablet" was classified as mobile.
C19_Witness ==
  /\ Returned("getDeviceType")
  /\ HasWord({"iPad"}) /\ HasWord(TabletWords)
  /\ call.out = "mobile"

\* ------------------------------------------------------------------ C20
\* The words each rule of getOS matches, in the order of the rules.
OSRules ==
  << <<{"Windows NT 10.0"}, "Windows 10">>,
     <<{"Windows NT 6.3"}, "Windows 8.1">>,
     <<{"Windows NT 6.2"}, "Windows 8">>,
     <<{"Windows NT 6.1"}, "Windows 7">>,
     <<{"Windows NT 10.0", "Windows NT 6.3", "Windows NT 6.2", "Windows NT 6.1",
        "Windows Phone"}, "Windows">>,
     <<{"Mac OS X"}, "macOS">>,
     <<{"Android"}, "Android">>,
     <<{"iPhone", "iPad"}, "iOS">>,
     <<{"Linux"}, "Linux">> >>

Matching == {k \in DOMAIN OSRules : HasWord(OSRules[k][1])}

\* getOS returns the result of the first rule that matches, "Other" when
\* none does and "Unknown" for an empty or absent user-agent.
OSFirstMatch ==
  Returned("getOS") =>
    IF ~call.ua.given \/ call.ua.words = <<>> THEN call.out = "Unknown"
    ELSE IF Matching = {} THEN call.out = "Other"
    ELSE \E k \in Matching : (\A j \in Matching : k <= j) /\ call.out = OSRules[k][2]

\* The words of the Windows rules (rules 1 to 5).
WindowsWords == OSRules[5][1]

\* The outcomes the claim names for particular user-agents, read for the
\* user-agents browsers send: an Android one has "Linux" and "Android" and no
\* word of Windows or macOS, an iOS one has "iPhone" or "iPad", possibly the
\* "Mac OS X" every iOS browser adds, and no word of Windows or Android.
OSExamples ==
  Returned("getOS") =>
    /\ (HasWord({"Android"}) /\ HasWord({"Linux"})
          /\ ~HasWord(WindowsWords \cup {"Mac OS X"})) => call.out = "Android"
    /\ HasWord({"Windows NT 10.0"}) => call.out = "Windows 10"
    /\ (HasWord({"iPhone", "iPad"}) /\ ~HasWord(WindowsWords \cup {"Android"}))
          => call.out = "iOS"

\* C20: getOS returns the result of the first matching rule in the order
\* Windows NT 10, 6.3, 6.2, 6.1, Windows, Mac OS X, Android, iPhone/iPad,
\* Linux; a user-agent with both "Android" and "Linux" yields "Android", one
\* with "Windows NT 10.0" yields "Windows 10", one with "iPhone" or "iPad"
\* yields "iOS"; no match yields "Other" and an empty one "Unknown".
C20_OSFirstMatch == OSFirstMatch /\ OSExamples

\* ------------------------------------------------------------------ C21
\* The words of BrowserWords in which each token of getBrowser occurs, in
\* the order the tokens are tested, with the name returned for each.
BrowserRules ==
  << <<{"Firefox"}, "Firefox">>,
     <<{"Edg", "Edge"}, "Edge">>,
     <<{"Chrome"}, "Chrome">>,
     <<{"Safari"}, "Safari">>,
     <<{"Opera", "Opera Mini", "OPR"}, "Opera">>,
     <<{"MSIE", "Trident"}, "Internet Explorer">> >>

BrowserMatching ==
  {k \in DOMAIN BrowserRules : \E i \in DOMAIN call.ua.words : call.ua.words[i] \in BrowserRules[k][1]}

\* C21: getBrowser returns the name of the earliest rule, in the order
\* Firefox, Edge, Chrome, Safari, Opera, Internet Explorer, whose token the
\* user-agent contains; a user-agent with "Chrome" and "Safari" gives
\* "Chrome" and one whose only token is "Safari" gives "Safari"; a text
\* without any token gives "Other"; an absent or empty user-agent gives
\* "Unknown".
C21_BrowserFirstMatch ==
  Returned("getBrowser") =>
    /\ (~call.ua.given \/ call.ua.words = <<>>) => call.out = "Unknown"
    /\ (call.ua.given /\ call.ua.words # <<>> /\ BrowserMatching = {}) =>
          call.out = "Other"
    /\ (call.ua.given /\ BrowserMatching # {}) =>
          call.out = BrowserRules[CHOOSE k \in BrowserMatching :
                                   \A j \in BrowserMatching : k <= j][2]
    /\ (call.ua.given /\ call.ua.words \in {<<"Chrome", "Safari">>, <<"Safari", "Chrome">>}) =>
          call.out = "Chrome"
    /\ (call.ua.given /\ call.ua.words \in {<<"Safari">>, <<"Mozilla/5.0", "Safari">>}) =>
          call.out = "Safari"

\* A user-agent with "Safari" before "Chrome" in the text was classified.
C21_Witness ==
  /\ Returned("getBrowser")
  /\ call.ua.words = <<"Safari", "Chrome">>
  /\ call.out = "Chrome"

\* ------------------------------------------------------------------ C22
\* An address as getClientIP is to return it: not empty, without a comma and
\* without a blank.
IsSingleAddress(text) ==
  /\ text # <<>>
  /\ \A i \in DOMAIN text : text[i] \notin {",", " "}

\* The first comma-separated entry of each header of ForwardedHeaders, its
\* surrounding blanks removed.
FirstOf(forwarded) ==
  CASE forwarded \in {"1.2.3.4", "1.2.3.4, 5.6.7.8", "1.2.3.4 ,5.6.7.8"} -> "1.2.3.4"
    [] forwarded \in {"", ", 5.6.7.8", ","} -> ""

\* C22: getClientIP always returns a single IP string: with an
\* x-forwarded-for header, its first comma-separated entry without the
\* surrounding blanks; without one, the first available of
\* connection.remoteAddress, socket.remoteAddress and req.ip; "Unknown" when
\* none is available.
C22_SingleIPString ==
  Returned("getClientIP") =>
    /\ IsSingleAddress(call.out)
    /\ call.forwarded # Null => call.out = Chars(FirstOf(call.forwarded))
    /\ call.forwarded = Null =>
         call.out =
           Chars(IF call.connection \notin {Null, ""} THEN call.connection
                 ELSE IF call.socket \notin {Null, ""} THEN call.socket
                 ELSE IF call.ip \notin {Null, ""} THEN call.ip
                 ELSE "Unknown")

\* ------------------------------------------------------------------ C23
OtpRoutes == {"verify-email", "reset-password"}

\* The OTP otpv is the one stored for the email right now.
StoredNow(email, otpv) == au.stored[email] # Null /\ au.stored[email] = otpv

\* The step marks an account verified, changes the password of an account,
\* or answers verify-email with a token: the request in flight that does it.
Marks(i) ==
  /\ i \in DOMAIN au.rq
  /\ \/ /\ au.rq[i].route = "verify-email"
        /\ au.rq[i].pc = "update"
        /\ au.rq[i].email \in au'.verified \ au.verified
     \/ /\ au.rq[i].route = "reset-password"
        /\ au.rq[i].pc = "save"
        /\ au'.password[au.rq[i].email] # au.password[au.rq[i].email]
     \/ /\ au.rq[i].route = "verify-email"
        /\ au.rq[i].pc = "deleteOtp"
        /\ au'.last.token

\* The step is the arrival of a request to one of the two routes that is
\* answered before the handler leaves the OTP tests.
TurnedAway ==
  /\ au'.n = au.n + 1
  /\ au'.rq = au.rq
  /\ au'.last.route \in OtpRoutes

AccountsUntouched ==
  /\ au'.exists = au.exists
  /\ au'.verified = au.verified
  /\ au'.password = au.password
  /\ au'.stored = au.stored

\* The accounts change only through a request in flight on its route: a
\* verified flag through verify-email, the password of an existing account
\* through reset-password.
OnlyByOtpRoutes ==
  /\ \A e \in au'.verified \ au.verified :
        \E i \in DOMAIN au.rq : au.rq[i].email = e /\ Marks(i)
  /\ \A e \in au.exists :
        au'.password[e] # au.password[e] =>
           \E i \in DOMAIN au.rq : au.rq[i].email = e /\ Marks(i)
  /\ (au'.last.token /\ au'.last.route = "verify-email") =>
        \E i \in DOMAIN au.rq : au.rq[i].email = au'.last.email /\ Marks(i)

\* C23 as stated: a request marks the account verified, gets its token or
\* changes the password only while the OTP it supplied is the one stored
\* for its email, and a request whose OTP is missing, expired or different
\* is answered 400 and leaves the verified flags, the passwords and the
\* stored OTPs as they are.
C23_OtpGate ==
  [][/\ OnlyByOtpRoutes
     /\ \A i \in DOMAIN au.rq : Marks(i) => StoredNow(au.rq[i].email, au.rq[i].otp)
     /\ (TurnedAway /\ ~StoredNow(au'.last.email, au'.last.otp)) =>
           au'.last.status = 400 /\ AccountsUntouched]_vars

\* C23, amended: the OTP is tested once, when the handler has read it: a
\* request goes past the tests only if the OTP it supplied is the one stored
\* for its email at that moment, and only requests past the tests mark an
\* account verified, get a token or change a password; a request that does
\* not pass is answered 400, or 500 when the read of the OTP fails, and in
\* both cases leaves the verified flags, the passwords and the stored OTPs
\* as they are.
C23_OtpGateWhenRead ==
  [][/\ OnlyByOtpRoutes
     /\ (au'.n = au.n + 1 /\ Len(au'.rq) = Len(au.rq) + 1
           /\ au'.rq[Len(au'.rq)].route \in OtpRoutes) =>
          StoredNow(au'.rq[Len(au'.rq)].email, au'.rq[Len(au'.rq)].otp)
     /\ TurnedAway =>
          /\ AccountsUntouched
          /\ au'.last.status \in {400, 500}
          /\ StoredNow(au'.last.email, au'.last.otp) => au'.last.status = 500]_vars

\* An account was verified with its OTP and a later reset-password with an
\* OTP that is not stored has just been answered 400.
C23_Witness ==
  /\ "a@example.com" \in au.verified
  /\ au.last.route = "reset-password"
  /\ au.last.status = 400

\* ------------------------------------------------------------------ C24
\* C24: a stored OTP is single-use: no request to verify-email or
\* reset-password succeeds with an OTP that another request has already
\* succeeded with, a concurrent request included.
C24_SingleUse == ~au.last.reused

\* ------------------------------------------------------------------ C25
\* Tokens go to verified users only, and no flag is ever taken back; a login
\* was handed the account's password hash when it loaded the user, and gets
\* its token only when the supplied password matches that hash.
TokensForVerified ==
  /\ au'.last.token => au'.last.email \in au'.verified
  /\ au.verified \subseteq au'.verified
  /\ (au'.n = au.n + 1 /\ Len(au'.rq) = Len(au.rq) + 1
        /\ au'.rq[Len(au'.rq)].route = "login") =>
       LET req == au'.rq[Len(au'.rq)]
       IN req.email \in au.verified /\ req.hash = au.password[req.email]
  /\ \A i \in DOMAIN au.rq :
       (au.rq[i].route = "login" /\ au'.last.route = "login" /\ au'.last.token
          /\ au'.rq = SubSeq(au.rq, 1, i - 1) \o SubSeq(au.rq, i + 1, Len(au.rq))) =>
         HashOf(au.rq[i].pw) = au.rq[i].hash

\* The step answers the arrival of a login for an account that is not
\* verified.
UnverifiedLogin ==
  /\ au'.n = au.n + 1
  /\ au'.rq = au.rq
  /\ au'.last.route = "login"
  /\ au'.last.email \notin au.verified

\* C25 as stated: a token returned by login or verify-email belongs to a
\* verified user, login also requires the password to match, and the login
\* of an unverified user is answered 401 whatever the password.
C25_TokenOnlyVerified ==
  [][/\ TokensForVerified
     /\ UnverifiedLogin => au'.last.status = 401]_vars

\* C25, amended: as stated, except that the login of an unverified user is
\* answered 401, or 500 when the user query fails, in both cases without a
\* token.
C25_TokenOnlyVerifiedNoToken ==
  [][/\ TokensForVerified
     /\ UnverifiedLogin => au'.last.status \in {401, 500} /\ ~au'.last.token]_vars

\* A login of the verified account has just been answered with a token.
C25_Witness ==
  /\ au.last.route = "login"
  /\ au.last.token
  /\ au.last.status = 200

\* ------------------------------------------------------------------ C26
\* C26: forgot-password answers alike whether or not the email has an
\* account: of the requests answered so far, one for an email with an
\* account and one for an email without have the same status, whatever the
\* outcome of storing and mailing the OTP.
C26_NoDisclosure ==
  \A x \in au.forgot, y \in au.forgot : x[1] # y[1] => x[2] = y[2]

\* ------------------------------------------------------------------ C27
\* C27: no POST /api/urls creates a ShortLink whose customUrl is the custom
\* alias or the short code of a ShortLink in the store, its request being
\* answered 400 instead; so of concurrent requests with the same customUrl
\* at most one creates a ShortLink.
C27_TakenAliasRejected ==
  [][\A doc \in urls' \ urls :
        doc.customUrl # Null => FindTaken(doc.customUrl) = {}]_vars

\* ------------------------------------------------------------------ C28
\* The step is the arrival of a delete request; the user who sent it owns
\* the ShortLink it names.
NewDelete == Len(dl') = Len(dl) + 1
DeleterOwns(id) == \E u \in urls, user \in Deleters : u._id = id /\ u.userId = user

\* A ShortLink leaves the store only in the last step of a delete request in
\* flight for it, a ClickEvent only in the deleteMany of a delete request in
\* flight for its link; a delete request gets in flight only for a link its
\* user owns, and its arrival changes neither collection.
DeleteFrame ==
  /\ \A u \in urls \ urls' :
        \E d \in DOMAIN dl :
           dl[d].pc = "deleteOne" /\ dl[d].id = u._id /\ dl'[d].status = 200
  /\ \A c \in clicks \ clicks' :
        \E d \in DOMAIN dl : dl[d].pc = "deleteMany" /\ dl[d].id = c.urlId
  /\ NewDelete =>
        /\ urls' = urls
        /\ clicks' = clicks
        /\ dl'[Len(dl')].pc # "done" => DeleterOwns(dl'[Len(dl')].id)

\* C28 as stated: a delete by a user who does not own the ShortLink, or for
\* an unknown id, is answered 404 and changes no ShortLink and no
\* ClickEvent; a delete by the owner removes only that ShortLink and its
\* ClickEvents.
C28_OwnerOnlyDelete ==
  [][/\ DeleteFrame
     /\ (NewDelete /\ ~DeleterOwns(dl'[Len(dl')].id)) => dl'[Len(dl')].status = 404]_vars

\* C28, amended: as stated, except that the delete of a user who does not
\* own the ShortLink is answered 404, or 500 when the query for the link
\* fails, in both cases without a change.
C28_OwnerOnlyDeleteOrError ==
  [][/\ DeleteFrame
     /\ (NewDelete /\ ~DeleterOwns(dl'[Len(dl')].id)) =>
           dl'[Len(dl')].status \in {404, 500}]_vars

\* A delete naming the stored ShortLink of another user has been answered 404.
C28_Witness ==
  \E d \in DOMAIN dl, u \in urls :
     /\ dl[d].status = 404
     /\ u._id = dl[d].id
     /\ u.userId \notin Deleters

\* ------------------------------------------------------------------ C29
\* The accounts, the stored OTPs and the mails sent.
Effects(a) == <<a.exists, a.verified, a.password, a.stored, a.issue, a.sent>>

\* The step is the arrival of a request at one of the limited routes.
GateArrival == au'.n = au.n + 1

C30_HealthzReachable ==
  /\ \A r \in DOMAIN rd : rd[r].shortCode # "healthz"
  /\ \A i \in DOMAIN reads : reads[i].kind = "healthz" => reads[i].status = 200

\* ------------------------------------------------------------------ C32
\* The step sends the answer of the i-th request in flight.
Answers(i) ==
  /\ au'.rq = SubSeq(au.rq, 1, i - 1) \o SubSeq(au.rq, i + 1, Len(au.rq))
  /\ au'.last.route = au.rq[i].route
  /\ au'.last.email = au.rq[i].email
  /\ au'.last.status # 0

\* C32: a signup request that is answered with an error has created no
\* user: the error is sent from a position of the handler before
\* User.create has fulfilled, and the step that sends it leaves the users
\* as they are.
C32_SignupNoPartialState ==
  [][\A i \in DOMAIN au.rq :
        (au.rq[i].route = "signup" /\ Answers(i) /\ au'.last.status \in {400, 500}) =>
           /\ au.rq[i].pc \in {"findOne", "create"}
           /\ au'.exists = au.exists]_vars

\* ------------------------------------------------------------------ C31
\* The route an OTP of the given purpose is meant for.
RouteOf(purpose) == IF purpose = "reset" THEN "reset-password" ELSE "verify-email"

\* C31: an OTP is accepted only by the route of the purpose it was issued
\* for: every verify-email request that has marked its account verified and
\* will answer with a JWT, and every reset-password request that has saved
\* its new password, presented an OTP issued for its route.
C31_OtpPurpose ==
  \A i \in DOMAIN au.rq :
     (au.rq[i].route \in {"verify-email", "reset-password"} /\ au.rq[i].pc = "deleteOtp") =>
        au.rq[i].route = RouteOf(au.rq[i].purpose)

=============================================================================
